---- MODULE Spec2Model ----
(***************************************************************************)
(* The LSP session of alloy-ide: the JSON-RPC transport over the pipes of  *)
(* the language-server subprocess (lsp/transport.rs) and the session       *)
(* manager that owns it (lsp/manager.rs).                                  *)
(*                                                                         *)
(* Spec / FairSpec model the manager with its callers: start(), stop()     *)
(* and the feature operations, each split at its await points.             *)
(* TransportSpec / TransportFairSpec model one LspTransport right after    *)
(* LspTransport::new, used directly by concurrent request/notify callers.  *)
(***************************************************************************)
EXTENDS Integers, Sequences, FiniteSets, TLC

\* ------------------------------------------------------------- bounds
\* Callers (tasks) that use the manager or the transport concurrently.
MaxPush == 3
NumProcs == 2
\* Subprocesses (and so transports) that start() may spawn in one run.
MaxTransports == 2
\* Frames the subprocesses write to their stdout in one run, all together.
MaxEmit == 2
\* request/notify calls made directly on a transport in one run (TransportSpec).
MaxCalls == 2
\* Manager operations issued by all callers together in one run (Spec).
MaxOps == 3
\* Request ids in use: an operation allocates at most one id.
MaxId == MaxOps

Procs == 1..NumProcs
Transports == 1..MaxTransports
Ids == 1..MaxId

\* Option::None of an Option field, and of a handle.
None == 0
\* serde_json::Value::Null, the result of a response without a result field.
Null == -1
\* A pending entry whose oneshot receiver was dropped by its caller.
Orphan == -1

\* ------------------------------------------------------------- state
VARIABLES
    \* LspManager
    status,            \* LspStatus
    transport,         \* Option<Arc<LspTransport>>: None or a transport
    notification_rx,   \* Option<UnboundedReceiver>: None or the transport it reads
    project_root,      \* Option<String>: None or 1
    tguard,            \* callers holding a read guard of the transport RwLock
    \* subprocesses and their LspTransport
    nspawned,          \* children spawned so far; transports 1..nspawned exist
    server,            \* per subprocess: "up" or "exited"
    emitted,           \* frames the subprocesses wrote to stdout so far
    stdin,             \* per transport: frames written to the child's stdin
    stdout,            \* per transport: frames in the pipe, not yet read
    reader,            \* per transport: reader_loop "running" or "done"
    next_id,           \* per transport: AtomicI64 next_id
    pending,           \* per transport: HashMap<RequestId, oneshot::Sender>
    notifq,            \* per transport: the unbounded notification channel
    \* callers
    pc,                \* where each caller stands in its operation
    op,                \* the operation each caller runs
    tr,                \* the transport a caller holds (Arc clone or borrow)
    rid,               \* the id a request call allocated
    chan,              \* the oneshot channel of a caller's request call
    ret,               \* what the caller's last finished call returned
    \* history
    assigned,          \* per transport: the ids allocated, in allocation order
    fulfilled,         \* per transport and id: how often tx.send ran for it
    late,              \* per transport and id: responses read after that send
    sinceStop,         \* "no", or since the last start() call a stop() "returned",
                       \* or one returned that no start() call overlapped: "quiet"
    afterStop,         \* per caller: sinceStop when its operation was issued
    overlap,           \* per caller in stop(): a start() call ran during the call
    stopCalls,         \* stop() calls issued so far
    ncalls,            \* operations issued so far
    \* the writer handle, byte by byte; the consumer of the notifications
    writer,            \* the caller holding the Mutex<ChildStdin>, or None
    wire,              \* the chunks written to the child's stdin, in order
    delivered,         \* per transport: envelopes the consumer received
    wrote,             \* history, per subprocess: all frames it wrote
    taken,             \* history, per transport: takes that got its receiver
    consumer,          \* per transport: the consumer's loop, "receiving" or "ended"
    \* one pipe, byte by byte: send_raw at one end, the reader loop at the other
    jsons,             \* the bodies handed to send_raw, in order
    nsent,             \* how many of them send_raw has written
    pipe,              \* the bytes written and not yet read
    pipeOpen,          \* the write end is open
    content_length,    \* the reader's content_length, an Option<usize>
    rphase,            \* the reader's position: "headers", "body" or "returned"
    bodies,            \* the bodies the reader decoded, in order
    blocks             \* history: the kind of each header block written

mgrVars == <<status, transport, notification_rx, project_root, tguard>>
subVars == <<nspawned, server, emitted, stdin, stdout, reader, next_id, pending, notifq>>
callVars == <<pc, op, tr, rid, chan, ret>>
histVars == <<assigned, fulfilled, late, sinceStop, afterStop, overlap, stopCalls, ncalls>>
frameVars == <<jsons, nsent, pipe, pipeOpen, content_length, rphase, bodies, blocks>>
auxVars == <<writer, wire, delivered, wrote, taken, consumer, frameVars>>
vars == <<mgrVars, subVars, callVars, histVars, auxVars>>

\* ------------------------------------------------------------- messages
\* LspMessage: an inbound envelope. id is None or an integer; method is
\* None or a method number; result and error are None or a payload.
LspMessage(i, m, r, e) == [id |-> i, method |-> m, result |-> r, error |-> e]

\* (Faulty variant: a frame with an id is a response, whatever else it has.)
is_responseById(msg) == msg.id # None
\* (Faulty variant: every frame is taken for a response.)
is_responseAlways(msg) == TRUE
is_response(msg) == msg.id # None /\ msg.method = None

is_notification(msg) == msg.id = None /\ msg.method # None

is_request(msg) == msg.id # None /\ msg.method # None

\* What the subprocess answers to request i: a result, or an error object.
ResultOf(i) == 10 * i + 1
ErrorOf(i) == 10 * i + 2

\* The frames a subprocess may write: for every id a response with a result
\* and a response with an error, and a notification.
ServerFrames ==
    {LspMessage(i, None, ResultOf(i), None) : i \in Ids}
        \cup {LspMessage(i, None, None, ErrorOf(i)) : i \in Ids}
        \cup {LspMessage(None, 1, None, None)}

\* The frames a subprocess that has read the frames `written` may write: a
\* response to any request it received, in any order and any number of times,
\* or a notification.
AnswersTo(written) ==
    {f \in ServerFrames :
        f.id = None \/ \E k \in 1..Len(written) : written[k].id = f.id}

\* LspRequest / LspNotification as written to the child's stdin.
LspRequest(i, method) == [id |-> i, method |-> method]
\* (Faulty variant: a notification is numbered like a request.)
LspNotificationNumbered(method) == [id |-> 1, method |-> method]
LspNotification(method) == [id |-> None, method |-> method]

\* The oneshot channel of a request call.
NoMsg == LspMessage(None, None, None, None)
NoChan == [state |-> "none", msg |-> NoMsg]
OpenChan == [state |-> "open", msg |-> NoMsg]
ClosedChan == [state |-> "closed", msg |-> NoMsg]
ValueChan(msg) == [state |-> "value", msg |-> msg]

\* Results of calls.
Ok(v) == [kind |-> "Ok", val |-> v]
Err(k, v) == [kind |-> k, val |-> v]
NoRet == [kind |-> "none", val |-> None]

\* ------------------------------------------------------------- transport
\* Operations called on the transport itself, not through the manager.
DirectOps == {"request", "notify"}
\* Manager operations that end in transport.request / transport.notify.
RequestOps == {"request", "hover"}
NotifyOps == {"notify", "did_open"}

\* (Faulty variant: a counter that is read and not advanced.)
FetchAddStuck(n) == n
\* next_id.fetch_add(1, SeqCst): the value the counter holds afterwards.
FetchAdd(n) == n + 1

\* (Faulty variant: the sender is not in the table when the frame is written.)
PendingInsertSkipped(pend, i, p) == pend
\* HashMap::insert / HashMap::remove on one transport's pending table.
PendingInsert(pend, i, p) == [pend EXCEPT ![i] = p]
\* (Faulty variant: the entry is looked up with get and left in the table.)
PendingKeep(pend, i) == pend
\* (Faulty variant: removing one entry empties the table.)
PendingDrain(pend, i) == [j \in Ids |-> None]
PendingRemove(pend, i) == [pend EXCEPT ![i] = None]

\* n.as_i64() of the id of a response: the key looked up, or None.
IdAsI64(msg) == IF msg.id \in Ids THEN msg.id ELSE None

\* (Faulty variant: a response goes to the oldest pending entry, whatever
\* its id.)
AnyEntry(pend, msg) ==
    IF \E i \in Ids : pend[i] # None
    THEN CHOOSE i \in Ids : pend[i] # None /\ \A j \in Ids : pend[j] # None => i <= j
    ELSE None
\* (Faulty variant: a response is accepted only for the oldest pending entry,
\* as if responses came in request order; any other is dropped.)
InOrderEntry(pend, msg) ==
    IF /\ IdAsI64(msg) # None
       /\ pend[IdAsI64(msg)] # None
       /\ \A j \in Ids : pend[j] # None => IdAsI64(msg) <= j
    THEN IdAsI64(msg)
    ELSE None
\* The entry the reader fulfils for a response (lines 204-208), or None.
RoutedEntry(pend, msg) ==
    IF IdAsI64(msg) # None /\ pend[IdAsI64(msg)] # None THEN IdAsI64(msg) ELSE None

\* The pending tables after caller p dropped its receiver: its entries stay in
\* the map, their senders have no receiver any more.
OrphanOf(pend, p) ==
    [t \in Transports |-> [i \in Ids |-> IF pend[t][i] = p THEN Orphan ELSE pend[t][i]]]

\* The owners of a transport's pending table: the LspTransport (alive while
\* the manager or a caller holds it) and the reader task (until it returns).
\* The senders in the table are dropped when the last owner is gone.
Holders(t) == {p \in Procs : tr[p] = t}
MapAlive(t) == reader[t] = "running" \/ transport = t \/ Holders(t) # {}

\* (Faulty variant: the call goes on without waiting for the channel.)
RxReadyAlways(p) == TRUE
\* rx.await of caller p is ready: a message was sent, or the sender was dropped.
RxReady(p) ==
    \/ chan[p].state \in {"value", "closed"}
    \/ chan[p].state = "open" /\ ~MapAlive(tr[p])

\* (Faulty variant: a result, when present, is returned before the error is
\* looked at.)
RequestOutcomeResultFirst(c) ==
    IF c.state # "value" THEN Err("ErrClosed", None)
    ELSE IF c.msg.result # None THEN Ok(c.msg.result)
    ELSE IF c.msg.error # None THEN Err("ErrLsp", c.msg.error)
    ELSE Ok(Null)

\* What request() returns once rx.await is ready.
RequestOutcome(c) ==
    IF c.state # "value" THEN Err("ErrClosed", None)
    ELSE IF c.msg.error # None THEN Err("ErrLsp", c.msg.error)
    ELSE Ok(IF c.msg.result = None THEN Null ELSE c.msg.result)

\* send_raw: writing a frame fails once the child is gone (broken pipe).
WriteOk(t) == server[t] = "up"

\* History: the start() and the stop() calls in progress.
Starting == {q \in Procs : op[q] = "start" /\ pc[q] # "idle"}
Stopping == {q \in Procs : op[q] = "stop" /\ pc[q] # "idle"}

\* Caller p's operation returns r: its locals (Arc clone, receiver) are dropped.
Returns(p, r) ==
    /\ pc' = [pc EXCEPT ![p] = "idle"]
    /\ ret' = [ret EXCEPT ![p] = r]
    /\ tr' = [tr EXCEPT ![p] = IF op[p] \in DirectOps THEN @ ELSE None]
    /\ chan' = [chan EXCEPT ![p] = NoChan]
    /\ pending' = OrphanOf(pending, p)
    /\ sinceStop' = IF op[p] # "stop" THEN sinceStop
                    ELSE IF overlap[p] THEN "returned" ELSE "quiet"
    /\ UNCHANGED <<op, rid>>

\* Caller p goes on to step `next` of its operation.
Goto(p, next) ==
    /\ pc' = [pc EXCEPT ![p] = next]
    /\ UNCHANGED <<ret, tr, rid, chan, pending, sinceStop, op>>

\* (Faulty variant: start() ignores the result of initialize, as stop()
\* ignores the result of shutdown.)
AfterRequestIgnoring(p, r) ==
    IF op[p] = "stop" \/ op[p] = "start"
    THEN /\ pc' = [pc EXCEPT ![p] = "ntf_write"]
         /\ chan' = [chan EXCEPT ![p] = NoChan]
         /\ pending' = OrphanOf(pending, p)
         /\ UNCHANGED <<ret, tr, rid, sinceStop, op>>
    ELSE Returns(p, r)

\* transport.request(..) ended with r inside caller p's operation: start()
\* propagates an error with `?`, stop() ignores the result, the feature
\* operations return it.
AfterRequest(p, r) ==
    IF op[p] = "stop" \/ (op[p] = "start" /\ r.kind = "Ok")
    THEN /\ pc' = [pc EXCEPT ![p] = "ntf_write"]
         /\ chan' = [chan EXCEPT ![p] = NoChan]
         /\ pending' = OrphanOf(pending, p)
         /\ UNCHANGED <<ret, tr, rid, sinceStop, op>>
    ELSE Returns(p, r)

\* request(), line 100, as the first step of a request call of caller p on
\* transport t: the id is allocated. The allocation is one atomic fetch_add
\* and is taken together with the step that begins the call.
Alloc(p, t) ==
    /\ next_id[t] <= MaxId
    /\ rid' = [rid EXCEPT ![p] = next_id[t]]
    /\ next_id' = [next_id EXCEPT ![t] = FetchAdd(@)]
    /\ assigned' = [assigned EXCEPT ![t] = Append(@, next_id[t])]

\* request(), lines 109-110: create the oneshot channel, register the sender.
\* A sender already stored under the id is dropped by the insert.
RequestInsert(p) ==
    /\ pc[p] = "req_insert"
    /\ LET t == tr[p]
           old == pending[t][rid[p]]
       IN /\ pending' = [pending EXCEPT ![t] = PendingInsert(@, rid[p], p)]
          /\ chan' = [q \in Procs |->
                        IF q = p THEN OpenChan
                        ELSE IF q = old /\ chan[q].state = "open" THEN ClosedChan
                        ELSE chan[q]]
    /\ pc' = [pc EXCEPT ![p] = "req_write"]
    /\ UNCHANGED <<mgrVars, nspawned, server, emitted, stdin, stdout, reader,
                   next_id, notifq, op, tr, rid, ret, histVars>>
    /\ UNCHANGED auxVars

\* request(), lines 112-113: frame and write the request; a write error
\* ends the call and leaves the entry in the table.
RequestWrite(p) ==
    /\ pc[p] = "req_write"
    /\ IF WriteOk(tr[p])
       THEN /\ stdin' = [stdin EXCEPT ![tr[p]] = Append(@, LspRequest(rid[p], op[p]))]
            /\ Goto(p, "req_await")
       ELSE /\ stdin' = stdin
            /\ AfterRequest(p, Err("ErrWrite", None))
    /\ UNCHANGED <<mgrVars, nspawned, server, emitted, stdout, reader,
                   next_id, notifq, assigned, fulfilled, late, afterStop, overlap, stopCalls, ncalls>>
    /\ UNCHANGED auxVars

\* request(), lines 115-121: the response arrived, or the channel closed.
RequestAwait(p) ==
    /\ pc[p] = "req_await"
    /\ RxReady(p)
    /\ AfterRequest(p, RequestOutcome(chan[p]))
    /\ UNCHANGED <<mgrVars, nspawned, server, emitted, stdin, stdout, reader,
                   next_id, notifq, assigned, fulfilled, late, afterStop, overlap, stopCalls, ncalls>>
    /\ UNCHANGED auxVars

\* (Faulty variant: start() ignores the result of the notification too.)
AfterNotifyIgnoring(p, r) ==
    IF op[p] = "stop"
    THEN /\ Goto(p, "stop_clear_transport")
         /\ tguard' = tguard \ {p}
    ELSE IF op[p] = "start"
    THEN /\ Goto(p, "start_store_transport")
         /\ tguard' = tguard
    ELSE /\ Returns(p, r)
         /\ tguard' = tguard

\* transport.notify(..) ended with r inside caller p's operation. stop()
\* ignores the result and leaves its `if let`, releasing the read guard.
AfterNotify(p, r) ==
    IF op[p] = "stop"
    THEN /\ Goto(p, "stop_clear_transport")
         /\ tguard' = tguard \ {p}
    ELSE IF op[p] = "start" /\ r.kind = "Ok"
    THEN /\ Goto(p, "start_store_transport")
         /\ tguard' = tguard
    ELSE /\ Returns(p, r)
         /\ tguard' = tguard

\* notify(), lines 125-138: frame and write a message without id.
NotifyWrite(p) ==
    /\ pc[p] = "ntf_write"
    /\ IF WriteOk(tr[p])
       THEN /\ stdin' = [stdin EXCEPT ![tr[p]] = Append(@, LspNotification(op[p]))]
            /\ AfterNotify(p, Ok(None))
       ELSE /\ stdin' = stdin
            /\ AfterNotify(p, Err("ErrWrite", None))
    /\ UNCHANGED <<status, transport, notification_rx, project_root,
                   nspawned, server, emitted, stdout, reader, next_id, notifq,
                   assigned, fulfilled, late, afterStop, overlap, stopCalls, ncalls>>
    /\ UNCHANGED auxVars

\* ---- send_raw, write by write
\* (Faulty variant: the writer handle is used without taking its mutex.)
WriterUnlocked(w) == TRUE
\* send_raw, line 143: self.writer.lock().await is granted when no caller
\* holds the mutex.
WriterFree(w) == w = None

\* The message caller p's call frames (lines 101-112 and 130-136).
FrameOf(p) ==
    IF op[p] \in RequestOps THEN LspRequest(rid[p], op[p]) ELSE LspNotification(op[p])

\* One write of write_all: a part of caller p's frame reaches the pipe.
Chunk(p, part) == [by |-> p, frame |-> FrameOf(p), part |-> part]

\* send_raw ended with r inside caller p's request or notify call.
SendRawEnds(p, r) ==
    IF op[p] \in RequestOps
    THEN /\ IF r.kind = "Ok" THEN Goto(p, "req_await") ELSE AfterRequest(p, r)
         /\ tguard' = tguard
    ELSE AfterNotify(p, r)

\* send_raw, lines 142-143: the frame is formatted and the writer mutex taken.
SendRawLock(p) ==
    /\ pc[p] \in {"req_write", "ntf_write"}
    /\ WriterFree(writer)
    /\ writer' = p
    /\ Goto(p, "raw_header")
    /\ UNCHANGED <<mgrVars, subVars, histVars, wire, delivered, wrote, taken, consumer, frameVars>>

\* send_raw, lines 144-147: write_all writes the buffer in one or more
\* writes, awaiting between them; here the first, which carries the
\* Content-Length header. A failed write returns with `?`: the guard drops.
SendRawHeader(p) ==
    /\ pc[p] = "raw_header"
    /\ IF WriteOk(tr[p])
       THEN /\ wire' = Append(wire, Chunk(p, "header"))
            /\ writer' = writer
            /\ Goto(p, "raw_body")
            /\ tguard' = tguard
       ELSE /\ wire' = wire
            /\ writer' = None
            /\ SendRawEnds(p, Err("ErrWrite", None))
    /\ UNCHANGED <<status, transport, notification_rx, project_root, subVars,
                   histVars, delivered, wrote, taken, consumer, frameVars>>

\* send_raw, lines 144-147: the remaining write of write_all, with the body.
SendRawBody(p) ==
    /\ pc[p] = "raw_body"
    /\ IF WriteOk(tr[p])
       THEN /\ wire' = Append(wire, Chunk(p, "body"))
            /\ writer' = writer
            /\ Goto(p, "raw_flush")
            /\ tguard' = tguard
       ELSE /\ wire' = wire
            /\ writer' = None
            /\ SendRawEnds(p, Err("ErrWrite", None))
    /\ UNCHANGED <<status, transport, notification_rx, project_root, subVars,
                   histVars, delivered, wrote, taken, consumer, frameVars>>

\* send_raw, lines 148-152: flush; the frame is now the child's to read; the
\* guard drops as send_raw returns.
SendRawFlush(p) ==
    /\ pc[p] = "raw_flush"
    /\ writer' = None
    /\ IF WriteOk(tr[p])
       THEN /\ stdin' = [stdin EXCEPT ![tr[p]] = Append(@, FrameOf(p))]
            /\ SendRawEnds(p, Ok(None))
       ELSE /\ stdin' = stdin
            /\ SendRawEnds(p, Err("ErrWrite", None))
    /\ UNCHANGED <<status, transport, notification_rx, project_root,
                   nspawned, server, emitted, stdout, reader, next_id, notifq,
                   histVars, wire, delivered, wrote, taken, consumer, frameVars>>

\* (Faulty variant: the newest envelope goes to the front of the queue.)
ForwardFirst(q, msg) == <<msg>> \o q
\* (Faulty variant: what is read while the manager has no receiver stored is
\* dropped.)
ForwardOnceStored(q, msg) == IF notification_rx = None THEN q ELSE Append(q, msg)
\* reader_loop, line 215: notification_tx.send(msg) on the unbounded channel.
Forward(q, msg) == Append(q, msg)

\* History: a response read for an id whose entry was fulfilled before.
LateCount(l, done, msg) ==
    IF IdAsI64(msg) # None /\ done[IdAsI64(msg)] > 0
    THEN [l EXCEPT ![IdAsI64(msg)] = @ + 1]
    ELSE l

\* Bodies that do not parse: bytes that are not UTF-8 (String::from_utf8
\* fails, line 193) and text that is not JSON, or not a JSON object with
\* fields of the expected types (serde_json::from_str fails, line 198).
NotUtf8 == [bytes |-> "not_utf8"]
NotJson == [bytes |-> "not_json"]
Parses(body) == body \notin {NotUtf8, NotJson}

\* (Faulty variant: a body that does not parse ends the reader task.)
OnMalformedReturn == "done"
\* reader_loop, lines 195 and 200: `continue`, the task goes on to the next
\* frame.
OnMalformed == "running"

\* (Faulty variant: a response that matches no entry goes to the notification
\* channel.)
UnmatchedForwarded(q, msg) == Append(q, msg)
\* reader_loop, lines 205-212: the if-lets have no else; for a response whose
\* id is no i64 or has no entry nothing is sent, the channel stays as it is.
Unmatched(q, msg) == q

\* reader_loop, lines 163-217: one frame is read, parsed and routed.
ReaderRoute(t) ==
    /\ t <= nspawned
    /\ reader[t] = "running"
    /\ stdout[t] # <<>>
    /\ LET msg == Head(stdout[t])
           i == RoutedEntry(pending[t], msg)
       IN /\ stdout' = [stdout EXCEPT ![t] = Tail(@)]
          /\ IF ~Parses(msg)
             THEN /\ reader' = [reader EXCEPT ![t] = OnMalformed]
                  /\ UNCHANGED <<notifq, pending, fulfilled, late, chan>>
             ELSE /\ reader' = reader
                  /\ IF is_response(msg)
                     THEN /\ notifq' = IF i # None THEN notifq
                                         ELSE [notifq EXCEPT ![t] = Unmatched(@, msg)]
                          /\ IF i # None
                             THEN /\ pending' = [pending EXCEPT ![t] = PendingRemove(@, i)]
                                  /\ fulfilled' = [fulfilled EXCEPT ![t][i] = @ + 1]
                                  /\ chan' = [q \in Procs |->
                                                IF q = pending[t][i] THEN ValueChan(msg)
                                                ELSE chan[q]]
                                  /\ late' = late
                             ELSE /\ late' = [late EXCEPT ![t] = LateCount(@, fulfilled[t], msg)]
                                  /\ UNCHANGED <<pending, fulfilled, chan>>
                     ELSE /\ notifq' = [notifq EXCEPT ![t] = Forward(@, msg)]
                          /\ UNCHANGED <<pending, fulfilled, late, chan>>
    /\ UNCHANGED <<mgrVars, nspawned, server, emitted, stdin, next_id,
                   pc, op, tr, rid, ret, assigned, sinceStop, afterStop, overlap, stopCalls, ncalls>>
    /\ UNCHANGED auxVars

\* reader_loop, lines 168-172 and 189-191: end of stream ends the task; its
\* clones of the pending table and of the notification sender are dropped.
ReaderEof(t) ==
    /\ t <= nspawned
    /\ reader[t] = "running"
    /\ stdout[t] = <<>>
    /\ server[t] = "exited"
    /\ reader' = [reader EXCEPT ![t] = "done"]
    /\ UNCHANGED <<mgrVars, nspawned, server, emitted, stdin, stdout, next_id,
                   pending, notifq, callVars, histVars>>
    /\ UNCHANGED auxVars

\* The subprocess writes a frame to its stdout.
ServerEmit(t) ==
    /\ t <= nspawned
    /\ server[t] = "up"
    /\ emitted < MaxEmit
    /\ \E f \in AnswersTo(stdin[t]) :
          stdout' = [stdout EXCEPT ![t] = Append(@, f)]
    /\ emitted' = emitted + 1
    /\ UNCHANGED <<mgrVars, nspawned, server, stdin, reader, next_id,
                   pending, notifq, callVars, histVars>>
    /\ UNCHANGED auxVars

\* What a subprocess writes unasked: notifications (two methods) and a
\* request of its own, whose id may equal an id the client uses.
ServerPushes ==
    {LspMessage(None, 1, None, None), LspMessage(None, 2, None, None),
     LspMessage(1, 1, None, None)}

\* The subprocess writes a frame to its stdout, a response or a frame of its
\* own; the frames it wrote are recorded in order.
ServerWrite(t) ==
    /\ t <= nspawned
    /\ server[t] = "up"
    /\ Len(wrote[t]) < MaxPush
    /\ \E f \in AnswersTo(stdin[t]) \cup ServerPushes :
          /\ stdout' = [stdout EXCEPT ![t] = Append(@, f)]
          /\ wrote' = [wrote EXCEPT ![t] = Append(@, f)]
    /\ UNCHANGED <<mgrVars, nspawned, server, emitted, stdin, reader, next_id,
                   pending, notifq, callVars, histVars>>
    /\ UNCHANGED <<writer, wire, delivered, taken, consumer, frameVars>>

\* Every body a subprocess that has read the frames `written` may put in a
\* frame: what AnswersTo and ServerPushes give, a response with both a result
\* and an error, a response with neither, a JSON object with neither id nor
\* method (every field of LspMessage has a default), and bodies that do not
\* parse.
AnyBodies(written) ==
    AnswersTo(written) \cup ServerPushes
       \cup {LspMessage(i, None, ResultOf(i), ErrorOf(i)) :
                i \in {written[k].id : k \in 1..Len(written)}}
       \cup {LspMessage(i, None, None, None) :
                i \in {written[k].id : k \in 1..Len(written)}}
       \cup {LspMessage(None, None, None, None), NotUtf8, NotJson}

\* The subprocess writes a frame with any body to its stdout; the bodies it
\* wrote are recorded in order.
ServerWriteAny(t) ==
    /\ t <= nspawned
    /\ server[t] = "up"
    /\ emitted < MaxEmit
    /\ \E f \in AnyBodies(stdin[t]) :
          /\ stdout' = [stdout EXCEPT ![t] = Append(@, f)]
          /\ wrote' = [wrote EXCEPT ![t] = Append(@, f)]
    /\ emitted' = emitted + 1
    /\ UNCHANGED <<mgrVars, nspawned, server, stdin, reader, next_id,
                   pending, notifq, callVars, histVars>>
    /\ UNCHANGED <<writer, wire, delivered, taken, consumer, frameVars>>

\* commands/lsp.rs, line 64: the consumer task's rx.recv() takes the oldest
\* envelope off the notification channel of transport t.
RecvNotification(t) ==
    /\ notifq[t] # <<>>
    /\ delivered' = [delivered EXCEPT ![t] = Append(@, Head(notifq[t]))]
    /\ notifq' = [notifq EXCEPT ![t] = Tail(@)]
    /\ UNCHANGED <<mgrVars, nspawned, server, emitted, stdin, stdout, reader, next_id,
                   pending, callVars, histVars>>
    /\ UNCHANGED <<writer, wire, wrote, taken, consumer, frameVars>>

\* The senders of transport t's notification channel: the one moved into the
\* reader task (line 89) and the one kept in the LspTransport (lines 68, 85),
\* which lives while the manager or a caller holds the transport.
SendersAlive(t) == reader[t] = "running" \/ transport = t \/ Holders(t) # {}

\* commands/lsp.rs, line 64, in the task lsp_start spawned for the receiver
\* it took: rx.recv() yields the oldest envelope.
ConsumerRecv(t) ==
    /\ taken[t] >= 1
    /\ consumer[t] = "receiving"
    /\ RecvNotification(t)

\* commands/lsp.rs, line 64: rx.recv() yields None, the channel being empty
\* and all its senders dropped; the while-let loop and the task end.
ConsumerEnd(t) ==
    /\ taken[t] >= 1
    /\ consumer[t] = "receiving"
    /\ notifq[t] = <<>>
    /\ ~SendersAlive(t)
    /\ consumer' = [consumer EXCEPT ![t] = "ended"]
    /\ UNCHANGED <<mgrVars, subVars, callVars, histVars,
                   writer, wire, delivered, wrote, taken, frameVars>>

\* (Faulty variant: the monitor task records the exit as an error.)
OnChildExitError(s) == "Error"
\* (Faulty variant: the monitor task records the exit in the status.)
OnChildExitStopped(s) == "Stopped"
\* manager.rs, lines 234-236: the task that monitors the child awaits
\* child.wait() and does nothing with its result; the status stays s.
OnChildExit(s) == s

\* The subprocess exits: its pipes close, the monitor task's wait returns.
ServerExit(t) ==
    /\ t <= nspawned
    /\ server[t] = "up"
    /\ server' = [server EXCEPT ![t] = "exited"]
    /\ status' = OnChildExit(status)
    /\ UNCHANGED <<transport, notification_rx, project_root, tguard,
                   nspawned, emitted, stdin, stdout, reader, next_id,
                   pending, notifq, callVars, histVars>>
    /\ UNCHANGED auxVars

\* A caller calls transport.request(..) on the transport it holds; the call
\* begins with the allocation of its id (line 100).
CallRequest(p) ==
    /\ pc[p] = "idle"
    /\ tr[p] # None
    /\ ncalls < MaxCalls
    /\ op[p] \in DirectOps \cup {"none"}
    /\ ncalls' = ncalls + 1
    /\ op' = [op EXCEPT ![p] = "request"]
    /\ Alloc(p, tr[p])
    /\ pc' = [pc EXCEPT ![p] = "req_insert"]
    /\ ret' = [ret EXCEPT ![p] = NoRet]
    /\ UNCHANGED <<mgrVars, nspawned, server, emitted, stdin, stdout, reader,
                   pending, notifq, tr, chan,
                   fulfilled, late, sinceStop, afterStop, overlap, stopCalls>>
    /\ UNCHANGED auxVars

\* A caller calls transport.notify(..) on the transport it holds.
CallNotify(p) ==
    /\ pc[p] = "idle"
    /\ tr[p] # None
    /\ ncalls < MaxCalls
    /\ op[p] \in DirectOps \cup {"none"}
    /\ ncalls' = ncalls + 1
    /\ op' = [op EXCEPT ![p] = "notify"]
    /\ pc' = [pc EXCEPT ![p] = "ntf_write"]
    /\ ret' = [ret EXCEPT ![p] = NoRet]
    /\ UNCHANGED <<mgrVars, subVars, tr, rid, chan,
                   assigned, fulfilled, late, sinceStop, afterStop, overlap, stopCalls>>
    /\ UNCHANGED auxVars


\* ------------------------------------------------------------- manager
\* Caller p issues a manager operation o.
Issue(p, o) ==
    /\ pc[p] = "idle"
    /\ ncalls < MaxOps
    /\ ncalls' = ncalls + 1
    /\ op' = [op EXCEPT ![p] = o]
    /\ afterStop' = [afterStop EXCEPT ![p] = sinceStop]
    /\ stopCalls' = IF o = "stop" THEN stopCalls + 1 ELSE stopCalls
    /\ overlap' = [q \in Procs |->
                     IF o = "start" THEN overlap[q] \/ q \in Stopping
                     ELSE IF o = "stop" /\ q = p THEN Starting # {}
                     ELSE overlap[q]]

\* (Faulty variant: only a running session ends the call.)
StartSkipsRunning(st) == st = "Running"
\* start(), lines 94-97: read the status; Running or Starting ends the call.
StartSkips(st) == st = "Running" \/ st = "Starting"

Start(p) ==
    /\ Issue(p, "start")
    /\ sinceStop' = "no"
    /\ IF StartSkips(status)
       THEN /\ ret' = [ret EXCEPT ![p] = Ok(None)]
            /\ pc' = pc
       ELSE /\ ret' = [ret EXCEPT ![p] = NoRet]
            /\ pc' = [pc EXCEPT ![p] = "start_set_starting"]
    /\ UNCHANGED <<mgrVars, subVars, tr, rid, chan, assigned, fulfilled, late>>
    /\ UNCHANGED auxVars

\* start(), line 99.
StartSetStarting(p) ==
    /\ pc[p] = "start_set_starting"
    /\ status' = "Starting"
    /\ pc' = [pc EXCEPT ![p] = "start_set_root"]
    /\ UNCHANGED <<transport, notification_rx, project_root, tguard, subVars,
                   op, tr, rid, chan, ret, histVars>>
    /\ UNCHANGED auxVars

\* start(), line 100.
StartSetRoot(p) ==
    /\ pc[p] = "start_set_root"
    /\ project_root' = 1
    /\ pc' = [pc EXCEPT ![p] = "start_launch"]
    /\ UNCHANGED <<status, transport, notification_rx, tguard, subVars,
                   op, tr, rid, chan, ret, histVars>>
    /\ UNCHANGED auxVars

\* (Faulty variant: a later start() reuses the transport of the first one.)
ReusedTransport(n) == IF n = 0 THEN 1 ELSE n
\* start(), lines 146-160: every start() that gets this far spawns a child
\* of its own and builds a new LspTransport over its pipes; n transports
\* exist already.
NewTransport(n) == n + 1

\* start(), lines 102-163: discovery, workspace directory, spawn and
\* LspTransport::new. Any of the steps before the transport exists may fail,
\* which ends the call with an error; else a new child and its transport
\* exist, and the initialize request begins.
StartLaunch(p) ==
    /\ pc[p] = "start_launch"
    /\ \E found \in BOOLEAN :
          IF found
          THEN /\ nspawned < MaxTransports
               /\ nspawned' = nspawned + 1
               /\ tr' = [tr EXCEPT ![p] = NewTransport(nspawned)]
               /\ Alloc(p, NewTransport(nspawned))
               /\ pc' = [pc EXCEPT ![p] = "req_insert"]
               /\ UNCHANGED <<ret, chan, pending, sinceStop, op>>
          ELSE /\ nspawned' = nspawned
               /\ Returns(p, Err("ErrLaunch", None))
               /\ UNCHANGED <<next_id, assigned>>
    /\ UNCHANGED <<mgrVars, server, emitted, stdin, stdout, reader, notifq,
                   fulfilled, late, afterStop, overlap, stopCalls, ncalls>>
    /\ UNCHANGED auxVars

\* start(), line 229: the write guard waits for the read guards to go.
StartStoreTransport(p) ==
    /\ pc[p] = "start_store_transport"
    /\ tguard = {}
    /\ transport' = tr[p]
    /\ pc' = [pc EXCEPT ![p] = "start_store_rx"]
    /\ UNCHANGED <<status, notification_rx, project_root, tguard, subVars,
                   op, tr, rid, chan, ret, histVars>>
    /\ UNCHANGED auxVars

\* start(), line 230.
StartStoreRx(p) ==
    /\ pc[p] = "start_store_rx"
    /\ notification_rx' = tr[p]
    /\ pc' = [pc EXCEPT ![p] = "start_set_running"]
    /\ UNCHANGED <<status, transport, project_root, tguard, subVars,
                   op, tr, rid, chan, ret, histVars>>
    /\ UNCHANGED auxVars

\* start(), lines 231-238: status Running, and the call returns Ok.
StartSetRunning(p) ==
    /\ pc[p] = "start_set_running"
    /\ status' = "Running"
    /\ Returns(p, Ok(None))
    /\ UNCHANGED <<transport, notification_rx, project_root, tguard,
                   nspawned, server, emitted, stdin, stdout, reader, next_id, notifq,
                   assigned, fulfilled, late, afterStop, overlap, stopCalls, ncalls>>
    /\ UNCHANGED auxVars

\* stop(), lines 243-245: read the transport; with one held, the read guard
\* is kept over the shutdown request, which begins, and the exit notification.
Stop(p) ==
    /\ Issue(p, "stop")
    /\ ret' = [ret EXCEPT ![p] = NoRet]
    /\ IF transport # None
       THEN /\ tguard' = tguard \cup {p}
            /\ tr' = [tr EXCEPT ![p] = transport]
            /\ Alloc(p, transport)
            /\ pc' = [pc EXCEPT ![p] = "req_insert"]
       ELSE /\ tguard' = tguard
            /\ tr' = tr
            /\ pc' = [pc EXCEPT ![p] = "stop_clear_transport"]
            /\ UNCHANGED <<rid, next_id, assigned>>
    /\ UNCHANGED <<status, transport, notification_rx, project_root,
                   nspawned, server, emitted, stdin, stdout, reader, pending, notifq,
                   chan, fulfilled, late, sinceStop>>
    /\ UNCHANGED auxVars

\* stop(), line 250.
StopClearTransport(p) ==
    /\ pc[p] = "stop_clear_transport"
    /\ tguard = {}
    /\ transport' = None
    /\ pc' = [pc EXCEPT ![p] = "stop_clear_rx"]
    /\ UNCHANGED <<status, notification_rx, project_root, tguard, subVars,
                   op, tr, rid, chan, ret, histVars>>
    /\ UNCHANGED auxVars

\* stop(), line 251.
StopClearRx(p) ==
    /\ pc[p] = "stop_clear_rx"
    /\ notification_rx' = None
    /\ pc' = [pc EXCEPT ![p] = "stop_set_stopped"]
    /\ UNCHANGED <<status, transport, project_root, tguard, subVars,
                   op, tr, rid, chan, ret, histVars>>
    /\ UNCHANGED auxVars

\* stop(), line 252.
StopSetStopped(p) ==
    /\ pc[p] = "stop_set_stopped"
    /\ status' = "Stopped"
    /\ pc' = [pc EXCEPT ![p] = "stop_clear_root"]
    /\ UNCHANGED <<transport, notification_rx, project_root, tguard, subVars,
                   op, tr, rid, chan, ret, histVars>>
    /\ UNCHANGED auxVars

\* stop(), lines 253-255: clear the project root, and the call returns Ok.
StopClearRoot(p) ==
    /\ pc[p] = "stop_clear_root"
    /\ project_root' = None
    /\ Returns(p, Ok(None))
    /\ UNCHANGED <<status, transport, notification_rx, tguard,
                   nspawned, server, emitted, stdin, stdout, reader, next_id, notifq,
                   assigned, fulfilled, late, afterStop, overlap, stopCalls, ncalls>>
    /\ UNCHANGED auxVars

\* (Faulty variant: without a transport the operation quietly returns Null.)
NotRunningIgnored == Ok(Null)
\* .ok_or("LSP not running")?: what a feature operation returns when no
\* transport is held.
NotRunningError == Err("ErrNotRunning", None)

\* hover(), lines 380-399: clone the held transport or fail with "LSP not
\* running"; then transport.request begins. completion, definition,
\* references, rename, .. differ in the method name and the params only.
Hover(p) ==
    /\ Issue(p, "hover")
    /\ IF transport = None
       THEN /\ ret' = [ret EXCEPT ![p] = NotRunningError]
            /\ UNCHANGED <<pc, tr, rid, next_id, assigned>>
       ELSE /\ ret' = [ret EXCEPT ![p] = NoRet]
            /\ tr' = [tr EXCEPT ![p] = transport]
            /\ Alloc(p, transport)
            /\ pc' = [pc EXCEPT ![p] = "req_insert"]
    /\ UNCHANGED <<mgrVars, nspawned, server, emitted, stdin, stdout, reader,
                   pending, notifq, chan, fulfilled, late, sinceStop>>
    /\ UNCHANGED auxVars

\* did_open(), lines 271-289: clone the held transport or fail with "LSP not
\* running"; then transport.notify. did_change, did_close, did_save are alike.
DidOpen(p) ==
    /\ Issue(p, "did_open")
    /\ IF transport = None
       THEN /\ ret' = [ret EXCEPT ![p] = NotRunningError]
            /\ UNCHANGED <<pc, tr>>
       ELSE /\ ret' = [ret EXCEPT ![p] = NoRet]
            /\ tr' = [tr EXCEPT ![p] = transport]
            /\ pc' = [pc EXCEPT ![p] = "ntf_write"]
    /\ UNCHANGED <<mgrVars, subVars, rid, chan, assigned, fulfilled, late, sinceStop>>
    /\ UNCHANGED auxVars

\* Option::take, line 265: what the field holds after the take.
LeftByTake(rx) == None

\* take_notification_rx(), lines 264-266: under the field's lock, move the
\* stored receiver out to the caller and leave None; the caller gets None
\* when nothing is stored.
TakeNotificationRx(p) ==
    /\ Issue(p, "take_rx")
    /\ ret' = [ret EXCEPT ![p] = Ok(notification_rx)]
    /\ notification_rx' = LeftByTake(notification_rx)
    /\ taken' = IF notification_rx = None THEN taken
                ELSE [taken EXCEPT ![notification_rx] = @ + 1]
    /\ UNCHANGED <<status, transport, project_root, tguard, subVars,
                   pc, tr, rid, chan, assigned, fulfilled, late, sinceStop>>
    /\ UNCHANGED <<writer, wire, delivered, wrote, consumer, frameVars>>

\* status() returns the LspStatus value it read, not a Result.
StatusIs(s) == [kind |-> s, val |-> None]

\* status(), lines 37-39: a clone of the status under its read lock.
Status(p) ==
    /\ Issue(p, "status")
    /\ ret' = [ret EXCEPT ![p] = StatusIs(status)]
    /\ UNCHANGED <<mgrVars, subVars, pc, tr, rid, chan, assigned, fulfilled, late, sinceStop>>
    /\ UNCHANGED auxVars

\* ------------------------------------------------------------- specifications
\* LspTransport::new over the pipes of one child: counter at 1, empty table,
\* reader spawned; every caller holds a clone of the handle.
NoTransport ==
    /\ server = [t \in Transports |-> "up"]
    /\ emitted = 0
    /\ stdin = [t \in Transports |-> <<>>]
    /\ stdout = [t \in Transports |-> <<>>]
    /\ reader = [t \in Transports |-> "running"]
    /\ next_id = [t \in Transports |-> 1]
    /\ pending = [t \in Transports |-> [i \in Ids |-> None]]
    /\ notifq = [t \in Transports |-> <<>>]
    /\ assigned = [t \in Transports |-> <<>>]
    /\ fulfilled = [t \in Transports |-> [i \in Ids |-> 0]]
    /\ late = [t \in Transports |-> [i \in Ids |-> 0]]

\* ------------------------------------------------------------- framing
MaxBodyChars == 4
MaxFrames == 2

\* Characters, each as its UTF-8 encoding: line feed (one byte), e with acute
\* (two bytes), the euro sign (three bytes).
Chars == {<<10>>, <<195, 169>>, <<226, 130, 172>>}

\* The strings send_raw is called with, as sequences of characters.
Strs == UNION {[1..n -> Chars] : n \in 0..MaxBodyChars}

\* str::as_bytes: the UTF-8 bytes of a string.
RECURSIVE as_bytes(_)
as_bytes(s) == IF s = <<>> THEN <<>> ELSE Head(s) \o as_bytes(Tail(s))

\* (Faulty variant: the length in characters.)
chars_count(s) == Len(s)
\* send_raw, line 142: json.len(), the length of the string in bytes.
len(s) == Len(as_bytes(s))

\* format!("{}", n) of a usize: its decimal digits, most significant first.
RECURSIVE Display(_)
Display(n) ==
    IF n < 10 THEN <<48 + n>> ELSE Display(n \div 10) \o <<48 + (n % 10)>>

\* send_raw, line 142: "Content-Length: ", the bytes of the literal.
ContentLengthPrefix ==
    <<67, 111, 110, 116, 101, 110, 116, 45, 76, 101, 110, 103, 116, 104, 58, 32>>
CRLF == <<13, 10>>

\* send_raw, lines 142-145: the bytes of one frame.
Frame(json) ==
    ContentLengthPrefix \o Display(len(json)) \o CRLF \o CRLF \o as_bytes(json)

\* String::from_utf8 (line 193) and the check read_line makes (line 168):
\* the bytes are well-formed UTF-8 of one to four bytes per character.
Continuation(b) == b >= 128 /\ b <= 191
RECURSIVE ValidUtf8(_)
ValidUtf8(bs) ==
    IF bs = <<>> THEN TRUE
    ELSE LET b == Head(bs)
             n == IF b < 128 THEN 1
                  ELSE IF b >= 194 /\ b <= 223 THEN 2
                  ELSE IF b >= 224 /\ b <= 239 THEN 3
                  ELSE IF b >= 240 /\ b <= 244 THEN 4
                  ELSE 0
         IN  /\ n > 0
             /\ Len(bs) >= n
             /\ \A k \in 2..n : Continuation(bs[k])
             /\ ValidUtf8(SubSeq(bs, n + 1, Len(bs)))

\* Option values of the reader loop: None, and Some(x).
Nothing == <<>>
Some(x) == <<x>>

\* str::trim, line 173: white space removed from both ends.
WhiteSpace == {9, 10, 11, 12, 13, 32}
RECURSIVE trim_start(_)
trim_start(bs) ==
    IF bs # <<>> /\ Head(bs) \in WhiteSpace THEN trim_start(Tail(bs)) ELSE bs
RECURSIVE trim_end(_)
trim_end(bs) ==
    IF bs # <<>> /\ bs[Len(bs)] \in WhiteSpace
    THEN trim_end(SubSeq(bs, 1, Len(bs) - 1)) ELSE bs
trim(bs) == trim_end(trim_start(bs))

\* str::strip_prefix, line 177: what follows the prefix, if it is one.
strip_prefix(bs, prefix) ==
    IF Len(bs) >= Len(prefix) /\ SubSeq(bs, 1, Len(prefix)) = prefix
    THEN Some(SubSeq(bs, Len(prefix) + 1, Len(bs))) ELSE Nothing

\* str::parse::<usize>, line 178, with .ok(): an optional plus sign and one or
\* more decimal digits give the number, anything else nothing.
IsDigit(b) == b >= 48 /\ b <= 57
RECURSIVE Value(_)
Value(ds) ==
    IF ds = <<>> THEN 0 ELSE 10 * Value(SubSeq(ds, 1, Len(ds) - 1)) + (ds[Len(ds)] - 48)
parse(val) ==
    LET ds == IF val # <<>> /\ Head(val) = 43 THEN Tail(val) ELSE val
    IN  IF ds # <<>> /\ \A k \in 1..Len(ds) : IsDigit(ds[k])
        THEN Some(Value(ds)) ELSE Nothing

\* read_line, line 168: the position of the first line feed, 0 if none.
LineEnd(bs) ==
    IF \E k \in 1..Len(bs) : bs[k] = 10
    THEN CHOOSE k \in 1..Len(bs) : bs[k] = 10 /\ \A j \in 1..(k - 1) : bs[j] # 10
    ELSE 0

\* The pipe is not in use.
NoFrames ==
    /\ jsons = <<>>
    /\ nsent = 0
    /\ pipe = <<>>
    /\ pipeOpen = FALSE
    /\ content_length = Nothing
    /\ rphase = "returned"
    /\ bodies = <<>>
    /\ blocks = <<>>

\* send_raw, lines 142-152: the next body, framed, goes into the pipe.
SendRawFrame ==
    /\ pipeOpen
    /\ nsent < Len(jsons)
    /\ pipe' = pipe \o Frame(jsons[nsent + 1])
    /\ nsent' = nsent + 1
    /\ blocks' = Append(blocks, "plain")
    /\ UNCHANGED <<jsons, pipeOpen, content_length, rphase, bodies>>
    /\ UNCHANGED <<mgrVars, subVars, callVars, histVars,
                   writer, wire, delivered, wrote, taken, consumer>>

\* The write end of the pipe closes: its owner is dropped or exits.
PipeClose ==
    /\ pipeOpen
    /\ pipeOpen' = FALSE
    /\ UNCHANGED <<jsons, nsent, pipe, content_length, rphase, bodies, blocks>>
    /\ UNCHANGED <<mgrVars, subVars, callVars, histVars,
                   writer, wire, delivered, wrote, taken, consumer>>

\* (Faulty variant: a header line that is no Content-Length line clears the
\* length.)
OtherHeaderResets(cl) == Nothing
\* reader_loop, lines 177-179: a header line without the Content-Length
\* prefix leaves content_length as it is.
OtherHeader(cl) == cl

\* reader_loop, lines 166-185: read_line yields a line (through its line
\* feed, or what is left before the end of the stream); a line that is not
\* UTF-8 is a read error; a blank line ends the headers, going on to the body
\* if a length was seen; a Content-Length line sets the length.
ReaderReadLine ==
    /\ rphase = "headers"
    /\ LineEnd(pipe) > 0 \/ (~pipeOpen /\ pipe # <<>>)
    /\ LET k == IF LineEnd(pipe) > 0 THEN LineEnd(pipe) ELSE Len(pipe)
           header_line == SubSeq(pipe, 1, k)
           trimmed == trim(header_line)
           val == strip_prefix(trimmed, ContentLengthPrefix)
       IN  /\ pipe' = SubSeq(pipe, k + 1, Len(pipe))
           /\ IF ~ValidUtf8(header_line)
              THEN rphase' = "returned" /\ content_length' = content_length
              ELSE IF trimmed = <<>>
              THEN /\ rphase' = IF content_length = Nothing THEN "headers" ELSE "body"
                   /\ content_length' = content_length
              ELSE /\ rphase' = rphase
                   /\ content_length' = IF val # Nothing THEN parse(val[1])
                                        ELSE OtherHeader(content_length)
    /\ UNCHANGED <<jsons, nsent, pipeOpen, bodies, blocks>>
    /\ UNCHANGED <<mgrVars, subVars, callVars, histVars,
                   writer, wire, delivered, wrote, taken, consumer>>

\* reader_loop, line 169: read_line yields Ok(0) at the end of the stream.
ReaderReadEof ==
    /\ rphase = "headers"
    /\ ~pipeOpen /\ pipe = <<>>
    /\ rphase' = "returned"
    /\ UNCHANGED <<jsons, nsent, pipe, pipeOpen, content_length, bodies, blocks>>
    /\ UNCHANGED <<mgrVars, subVars, callVars, histVars,
                   writer, wire, delivered, wrote, taken, consumer>>

\* reader_loop, lines 188-196: read_exact fills a buffer of content_length
\* bytes, or fails when the stream ends first; bytes that are UTF-8 are the
\* body handed on to the JSON parser, others are skipped.
ReaderReadExact ==
    /\ rphase = "body"
    /\ Len(pipe) >= content_length[1] \/ ~pipeOpen
    /\ IF Len(pipe) >= content_length[1]
       THEN LET body == SubSeq(pipe, 1, content_length[1])
            IN  /\ pipe' = SubSeq(pipe, content_length[1] + 1, Len(pipe))
                /\ bodies' = IF ValidUtf8(body) THEN Append(bodies, body) ELSE bodies
                /\ rphase' = "headers"
       ELSE /\ pipe' = <<>>
            /\ bodies' = bodies
            /\ rphase' = "returned"
    /\ content_length' = Nothing
    /\ UNCHANGED <<jsons, nsent, pipeOpen, blocks>>
    /\ UNCHANGED <<mgrVars, subVars, callVars, histVars,
                   writer, wire, delivered, wrote, taken, consumer>>

\* The writer mutex is free, nothing was written, received or taken.
NoAux ==
    /\ NoFrames
    /\ writer = None
    /\ wire = <<>>
    /\ delivered = [t \in Transports |-> <<>>]
    /\ wrote = [t \in Transports |-> <<>>]
    /\ taken = [t \in Transports |-> 0]
    /\ consumer = [t \in Transports |-> "receiving"]

NoCalls ==
    /\ pc = [p \in Procs |-> "idle"]
    /\ op = [p \in Procs |-> "none"]
    /\ rid = [p \in Procs |-> None]
    /\ chan = [p \in Procs |-> NoChan]
    /\ ret = [p \in Procs |-> NoRet]
    /\ sinceStop = "no"
    /\ afterStop = [p \in Procs |-> "no"]
    /\ overlap = [p \in Procs |-> FALSE]
    /\ stopCalls = 0
    /\ ncalls = 0

\* LspManager::new.
ManagerNew ==
    /\ status = "Stopped"
    /\ transport = None
    /\ notification_rx = None
    /\ project_root = None
    /\ tguard = {}

TransportInit ==
    /\ ManagerNew
    /\ NoTransport
    /\ NoCalls
    /\ NoAux
    /\ nspawned = 1
    /\ tr = [p \in Procs |-> 1]

TransportNext ==
    \/ \E p \in Procs : CallRequest(p)
    \/ \E p \in Procs : CallNotify(p)
    \/ \E p \in Procs : RequestInsert(p)
    \/ \E p \in Procs : RequestWrite(p)
    \/ \E p \in Procs : RequestAwait(p)
    \/ \E p \in Procs : NotifyWrite(p)
    \/ \E t \in Transports : ReaderRoute(t)
    \/ \E t \in Transports : ReaderEof(t)
    \/ \E t \in Transports : ServerEmit(t)
    \/ \E t \in Transports : ServerExit(t)

TransportSpec == TransportInit /\ [][TransportNext]_vars

\* The runtime polls every spawned task that can make progress: the reader
\* task and the steps of a call once it was made. Nothing obliges a caller to
\* call, nor the subprocess to write or to exit.
TransportFairness ==
    /\ \A t \in Transports : WF_vars(ReaderRoute(t)) /\ WF_vars(ReaderEof(t))
    /\ \A p \in Procs : WF_vars(RequestInsert(p)) /\ WF_vars(RequestWrite(p))
    /\ \A p \in Procs : WF_vars(RequestAwait(p)) /\ WF_vars(NotifyWrite(p))

TransportFairSpec == TransportSpec /\ TransportFairness

\* The transport with a subprocess that also writes frames of its own, and
\* the consumer of the notification channel.
NotifyNext ==
    \/ \E p \in Procs : CallRequest(p)
    \/ \E p \in Procs : RequestInsert(p)
    \/ \E p \in Procs : RequestWrite(p)
    \/ \E p \in Procs : RequestAwait(p)
    \/ \E t \in Transports : ReaderRoute(t)
    \/ \E t \in Transports : ReaderEof(t)
    \/ \E t \in Transports : ServerWrite(t)
    \/ \E t \in Transports : ServerExit(t)
    \/ \E t \in Transports : RecvNotification(t)

NotifySpec == TransportInit /\ [][NotifyNext]_vars

\* The transport with a subprocess that may write any body.
WireNext ==
    \/ \E p \in Procs : CallRequest(p)
    \/ \E p \in Procs : RequestInsert(p)
    \/ \E p \in Procs : RequestWrite(p)
    \/ \E p \in Procs : RequestAwait(p)
    \/ \E t \in Transports : ReaderRoute(t)
    \/ \E t \in Transports : ReaderEof(t)
    \/ \E t \in Transports : ServerWriteAny(t)
    \/ \E t \in Transports : ServerExit(t)

WireSpec == TransportInit /\ [][WireNext]_vars

\* The transport with send_raw taken write by write, under callers that call
\* request and notify concurrently.
WriterNext ==
    \/ \E p \in Procs : CallRequest(p)
    \/ \E p \in Procs : CallNotify(p)
    \/ \E p \in Procs : RequestInsert(p)
    \/ \E p \in Procs : SendRawLock(p)
    \/ \E p \in Procs : SendRawHeader(p)
    \/ \E p \in Procs : SendRawBody(p)
    \/ \E p \in Procs : SendRawFlush(p)
    \/ \E p \in Procs : RequestAwait(p)
    \/ \E t \in Transports : ReaderRoute(t)
    \/ \E t \in Transports : ReaderEof(t)
    \/ \E t \in Transports : ServerEmit(t)
    \/ \E t \in Transports : ServerExit(t)

WriterSpec == TransportInit /\ [][WriterNext]_vars

\* LspManager::new: no child, no transport, no call yet.
Init ==
    /\ ManagerNew
    /\ NoTransport
    /\ NoCalls
    /\ NoAux
    /\ nspawned = 0
    /\ tr = [p \in Procs |-> None]

Next ==
    \/ \E p \in Procs : Start(p)
    \/ \E p \in Procs : StartSetStarting(p)
    \/ \E p \in Procs : StartSetRoot(p)
    \/ \E p \in Procs : StartLaunch(p)
    \/ \E p \in Procs : StartStoreTransport(p)
    \/ \E p \in Procs : StartStoreRx(p)
    \/ \E p \in Procs : StartSetRunning(p)
    \/ \E p \in Procs : Stop(p)
    \/ \E p \in Procs : StopClearTransport(p)
    \/ \E p \in Procs : StopClearRx(p)
    \/ \E p \in Procs : StopSetStopped(p)
    \/ \E p \in Procs : StopClearRoot(p)
    \/ \E p \in Procs : Hover(p)
    \/ \E p \in Procs : DidOpen(p)
    \/ \E p \in Procs : RequestInsert(p)
    \/ \E p \in Procs : RequestWrite(p)
    \/ \E p \in Procs : RequestAwait(p)
    \/ \E p \in Procs : NotifyWrite(p)
    \/ \E t \in Transports : ReaderRoute(t)
    \/ \E t \in Transports : ReaderEof(t)
    \/ \E t \in Transports : ServerEmit(t)
    \/ \E t \in Transports : ServerExit(t)

Spec == Init /\ [][Next]_vars

\* The steps of an operation that was issued are polled by the runtime, and so
\* is every reader task. Nothing obliges a caller to issue an operation, nor
\* a subprocess to write a frame or to exit.
Fairness ==
    /\ TransportFairness
    /\ \A p \in Procs : WF_vars(StartSetStarting(p)) /\ WF_vars(StartSetRoot(p))
    /\ \A p \in Procs : WF_vars(StartLaunch(p)) /\ WF_vars(StartStoreTransport(p))
    /\ \A p \in Procs : WF_vars(StartStoreRx(p)) /\ WF_vars(StartSetRunning(p))
    /\ \A p \in Procs : WF_vars(StopClearTransport(p)) /\ WF_vars(StopClearRx(p))
    /\ \A p \in Procs : WF_vars(StopSetStopped(p)) /\ WF_vars(StopClearRoot(p))

FairSpec == Spec /\ Fairness

\* The manager with the callers of lsp_start and lsp_stop: each start() that
\* returned is followed, whenever the caller gets to it, by a take of the
\* notification receiver; takes may also come at any other time.
TakeNext ==
    \/ \E p \in Procs : Start(p)
    \/ \E p \in Procs : StartSetStarting(p)
    \/ \E p \in Procs : StartSetRoot(p)
    \/ \E p \in Procs : StartLaunch(p)
    \/ \E p \in Procs : StartStoreTransport(p)
    \/ \E p \in Procs : StartStoreRx(p)
    \/ \E p \in Procs : StartSetRunning(p)
    \/ \E p \in Procs : Stop(p)
    \/ \E p \in Procs : StopClearTransport(p)
    \/ \E p \in Procs : StopClearRx(p)
    \/ \E p \in Procs : StopSetStopped(p)
    \/ \E p \in Procs : StopClearRoot(p)
    \/ \E p \in Procs : TakeNotificationRx(p)
    \/ \E p \in Procs : RequestInsert(p)
    \/ \E p \in Procs : RequestWrite(p)
    \/ \E p \in Procs : RequestAwait(p)
    \/ \E p \in Procs : NotifyWrite(p)
    \/ \E t \in Transports : ReaderRoute(t)
    \/ \E t \in Transports : ReaderEof(t)
    \/ \E t \in Transports : ServerEmit(t)
    \/ \E t \in Transports : ServerExit(t)

TakeSpec == Init /\ [][TakeNext]_vars

\* The manager under callers of all its operations.
ManagerNext ==
    \/ \E p \in Procs : Start(p)
    \/ \E p \in Procs : StartSetStarting(p)
    \/ \E p \in Procs : StartSetRoot(p)
    \/ \E p \in Procs : StartLaunch(p)
    \/ \E p \in Procs : StartStoreTransport(p)
    \/ \E p \in Procs : StartStoreRx(p)
    \/ \E p \in Procs : StartSetRunning(p)
    \/ \E p \in Procs : Stop(p)
    \/ \E p \in Procs : StopClearTransport(p)
    \/ \E p \in Procs : StopClearRx(p)
    \/ \E p \in Procs : StopSetStopped(p)
    \/ \E p \in Procs : StopClearRoot(p)
    \/ \E p \in Procs : Hover(p)
    \/ \E p \in Procs : DidOpen(p)
    \/ \E p \in Procs : Status(p)
    \/ \E p \in Procs : TakeNotificationRx(p)
    \/ \E p \in Procs : RequestInsert(p)
    \/ \E p \in Procs : RequestWrite(p)
    \/ \E p \in Procs : RequestAwait(p)
    \/ \E p \in Procs : NotifyWrite(p)
    \/ \E t \in Transports : ReaderRoute(t)
    \/ \E t \in Transports : ReaderEof(t)
    \/ \E t \in Transports : ServerEmit(t)
    \/ \E t \in Transports : ServerExit(t)

ManagerSpec == Init /\ [][ManagerNext]_vars

\* The manager, the callers of lsp_start and lsp_stop and the consumer tasks
\* that lsp_start spawns for the receivers it took.
ConsumerNext ==
    \/ \E p \in Procs : Start(p)
    \/ \E p \in Procs : StartSetStarting(p)
    \/ \E p \in Procs : StartSetRoot(p)
    \/ \E p \in Procs : StartLaunch(p)
    \/ \E p \in Procs : StartStoreTransport(p)
    \/ \E p \in Procs : StartStoreRx(p)
    \/ \E p \in Procs : StartSetRunning(p)
    \/ \E p \in Procs : Stop(p)
    \/ \E p \in Procs : StopClearTransport(p)
    \/ \E p \in Procs : StopClearRx(p)
    \/ \E p \in Procs : StopSetStopped(p)
    \/ \E p \in Procs : StopClearRoot(p)
    \/ \E p \in Procs : TakeNotificationRx(p)
    \/ \E p \in Procs : RequestInsert(p)
    \/ \E p \in Procs : RequestWrite(p)
    \/ \E p \in Procs : RequestAwait(p)
    \/ \E p \in Procs : NotifyWrite(p)
    \/ \E t \in Transports : ReaderRoute(t)
    \/ \E t \in Transports : ReaderEof(t)
    \/ \E t \in Transports : ServerEmit(t)
    \/ \E t \in Transports : ServerExit(t)
    \/ \E t \in Transports : ConsumerRecv(t)
    \/ \E t \in Transports : ConsumerEnd(t)

ConsumerSpec == Init /\ [][ConsumerNext]_vars

\* The consumer task too is polled whenever it can make progress.
ConsumerFairness ==
    /\ Fairness
    /\ \A t \in Transports : WF_vars(ConsumerRecv(t)) /\ WF_vars(ConsumerEnd(t))

ConsumerFairSpec == ConsumerSpec /\ ConsumerFairness


\* ------------------------------------------------------------- claims
\* A request call of caller p returned what a response frame carried.
ReturnedResponse(p) ==
    pc[p] = "idle" /\ op[p] \in RequestOps /\ ret[p].kind \in {"Ok", "ErrLsp"}

\* C1: whatever the number of concurrent request calls on a transport and the
\* order of the response frames, the message handed to a request call is a
\* frame whose id is the id allocated to that call, and the call returns the
\* result or error of that frame, never the payload of a frame with another id.
C1_ResponseMatchesOwnId ==
    \A p \in Procs :
        /\ chan[p].state = "value" =>
              /\ chan[p].msg \in ServerFrames
              /\ is_response(chan[p].msg)
              /\ chan[p].msg.id = rid[p]
        /\ ReturnedResponse(p) =>
              ret[p] \in {Ok(ResultOf(rid[p])), Err("ErrLsp", ErrorOf(rid[p]))}

\* C1 witness: the response to the request with id 2 overtook the response to
\* the request with id 1, which is still awaited, and its caller got result 2.
C1_Witness ==
    \E p, q \in Procs :
        /\ pc[p] = "req_await" /\ rid[p] = 1 /\ chan[p].state = "open"
        /\ ReturnedResponse(q) /\ rid[q] = 2 /\ ret[q] = Ok(ResultOf(2))
        /\ tr[p] = tr[q]

\* A response frame carrying the id of p's request is in the pipe.
ResponseInPipe(p) ==
    \E k \in 1..Len(stdout[tr[p]]) :
        is_response(stdout[tr[p]][k]) /\ IdAsI64(stdout[tr[p]][k]) = rid[p]

\* C2: under weak fairness of the reader task and of the caller's own steps,
\* a request call whose frame was written and whose response frame the
\* subprocess has emitted eventually returns with that response, however many
\* other requests are in flight and whatever the order of the other frames.
C2_ResponseEventuallyReturns ==
    \A p \in Procs :
        (pc[p] = "req_await" /\ ResponseInPipe(p)) ~> ReturnedResponse(p)

\* C2 witness: a call returned with its response while another request, sent
\* earlier, is still in flight and a further frame waits in the pipe.
C2_Witness ==
    \E p, q \in Procs :
        /\ ReturnedResponse(p) /\ rid[p] = 2
        /\ pc[q] = "req_await" /\ rid[q] = 1 /\ tr[q] = tr[p]
        /\ stdout[tr[p]] # <<>>

\* C3: on every transport the ids are allocated 1, 2, 3, ..: the first is 1,
\* each is greater than all allocated before it, and no two request calls,
\* concurrent or not, hold the same id.
C3_IdsStrictlyIncreasing ==
    /\ \A t \in Transports :
          /\ assigned[t] # <<>> => assigned[t][1] = 1
          /\ \A j, k \in 1..Len(assigned[t]) : j < k => assigned[t][j] < assigned[t][k]
    /\ \A p, q \in Procs :
          (p # q /\ tr[p] = tr[q] /\ pc[p] \in {"req_insert", "req_write", "req_await"}
               /\ pc[q] \in {"req_insert", "req_write", "req_await"})
             => rid[p] # rid[q]

\* C3 witness: two request calls run concurrently on one transport, the
\* second id allocated while the first call was still in progress.
C3_Witness ==
    \E p, q \in Procs :
        /\ p # q /\ tr[p] = tr[q]
        /\ pc[p] = "req_insert" /\ pc[q] = "req_insert"
        /\ Len(assigned[tr[p]]) = 2

\* The reader takes a response frame for id i off the pipe of transport t.
ReadsResponse(t, i) ==
    /\ reader[t] = "running"
    /\ stdout[t] # <<>>
    /\ stdout'[t] = Tail(stdout[t])
    /\ is_response(Head(stdout[t]))
    /\ IdAsI64(Head(stdout[t])) = i

\* C4: a pending entry is fulfilled at most once. The first response with an
\* id completes the request; a later response with the same id sends nothing,
\* leaves the delivered message as it is and leaves the table and every other
\* call's channel unchanged.
C4_FulfilledAtMostOnce ==
    [][ /\ \A t \in Transports, i \in Ids : fulfilled'[t][i] <= 1
        /\ \A t \in Transports, i \in Ids :
              (ReadsResponse(t, i) /\ fulfilled[t][i] > 0)
                 => UNCHANGED <<pending, chan, fulfilled>>
        /\ \A p \in Procs :
              (chan[p].state = "value" /\ pc'[p] = pc[p]) => chan'[p] = chan[p]
      ]_vars

\* C4 witness: the request with id 1 was fulfilled, a second response with
\* id 1 was read afterwards, and another request is still pending.
C4_Witness ==
    \E t \in Transports :
        /\ fulfilled[t][1] = 1 /\ late[t][1] = 1
        /\ \E q \in Procs : tr[q] = t /\ pc[q] = "req_await" /\ chan[q].state = "open"

\* Caller p's request is suspended in rx.await with nothing delivered.
Suspended(p) == pc[p] = "req_await" /\ chan[p].state = "open"

\* C5: when the reader loop has ended on end-of-stream while requests are
\* pending, every pending request call eventually returns with the closure
\* error "LSP response channel closed".
C5_PendingFailOnExit ==
    \A p \in Procs :
        (Suspended(p) /\ reader[tr[p]] = "done")
            ~> (pc[p] = "idle" /\ ret[p].kind = "ErrClosed")

\* C6: a feature request that is in flight when stop() runs (its caller got
\* the transport before, stop() has returned and the manager holds no
\* transport any more) eventually fails with the closure error.
C6_InFlightFailOnStop ==
    \A p \in Procs :
        (op[p] = "hover" /\ Suspended(p) /\ sinceStop = "quiet" /\ transport = None)
            ~> (pc[p] = "idle" /\ ret[p].kind = "ErrClosed")

\* The manager is stopped: status Stopped, nothing held.
StoppedState == status = "Stopped" /\ transport = None

\* Caller p's feature operation failed at once with "LSP not running".
NotRunning(p) == pc[p] = "idle" /\ ret[p].kind = "ErrNotRunning"

\* C7: after stop() has returned and before a later start() call,
\* the status is Stopped and no transport is held, and a feature request or
\* document notification issued then has failed with "LSP not running" at
\* once, without a step that writes a frame.
C7_StoppedAfterStop ==
    /\ sinceStop # "no" => StoppedState
    /\ \A p \in Procs :
          (afterStop[p] # "no" /\ op[p] \in {"hover", "did_open"}) => NotRunning(p)

\* The same restricted to sequential use of the lifecycle calls: after a
\* stop() call that no start() call overlapped (none was in progress when it
\* was called, none was called while it ran).
StoppedAfterQuietStop ==
    /\ sinceStop = "quiet" => StoppedState
    /\ \A p \in Procs :
          (afterStop[p] = "quiet" /\ op[p] \in {"hover", "did_open"}) => NotRunning(p)

\* Sequential use is reachable: a session was started and stopped (initialize, initialized,
\* shutdown and exit were written), then a hover failed with "not running".
StoppedAfterQuietStopReached ==
    \E p \in Procs :
        /\ afterStop[p] = "quiet" /\ op[p] = "hover" /\ NotRunning(p)
        /\ Len(stdin[1]) = 4

\* A stop() call of caller p returns in this step.
StopReturns(p) == op[p] = "stop" /\ pc[p] # "idle" /\ pc'[p] = "idle"

\* What a stop() call leaves behind when it returns.
StopPost(p) ==
    /\ ret'[p] = Ok(None)
    /\ transport' = None
    /\ notification_rx' = None
    /\ status' = "Stopped"

\* C8: whenever a stop() call returns, whatever the status it was
\* called in and whatever became of its shutdown request and exit
\* notification, it returns Ok and at that moment no transport is held, no
\* notification receiver is stored and the status is Stopped.
C8_StopLeavesStopped ==
    [][\A p \in Procs : StopReturns(p) => StopPost(p)]_vars

\* The same for every stop() call that no start() call overlapped.
QuietStopLeavesStopped ==
    [][\A p \in Procs : (StopReturns(p) /\ ~overlap[p]) => StopPost(p)]_vars

\* Such a call is reachable: stop() was called on a running session whose subprocess had
\* exited, so that the shutdown request and the exit notification failed to
\* be written, and it returned Ok with everything cleared.
QuietStopLeavesStoppedReached ==
    \E p \in Procs :
        /\ op[p] = "stop" /\ pc[p] = "idle" /\ ret[p] = Ok(None) /\ sinceStop = "quiet"
        /\ Len(assigned[1]) = 2 /\ Len(stdin[1]) = 2 /\ server[1] = "exited"
        /\ StoppedState /\ notification_rx = None

\* C9: every stop() call eventually returns.
C9_StopReturns ==
    \A p \in Procs : (op[p] = "stop" /\ pc[p] # "idle") ~> (pc[p] = "idle")

\* C10: start() calls, however they interleave, spawn one subprocess and
\* create one transport as long as no stop() is called.
C10_OneSpawn == stopCalls = 0 => nspawned <= 1

\* C11: a start() call that reads status Running or Starting returns Ok at
\* once and changes nothing: no subprocess is spawned, no frame is written,
\* and status, transport, notification receiver and project root are as before.
C11_StartSkipIsNoop ==
    [][\A p \in Procs :
          (Start(p) /\ status \in {"Running", "Starting"})
             => /\ ret'[p] = Ok(None)
                /\ pc'[p] = "idle"
                /\ UNCHANGED <<status, transport, notification_rx, project_root,
                               nspawned, stdin, next_id>>
      ]_vars

\* C11 witness: while one start() call is in progress (status Starting, no
\* subprocess yet), a second start() call returned Ok.
C11_Witness ==
    \E p, q \in Procs :
        /\ op[p] = "start" /\ pc[p] = "idle" /\ ret[p] = Ok(None)
        /\ q \in Starting /\ status = "Starting" /\ nspawned = 0

\* A start() call of caller p returns an error in this step.
StartFails(p) ==
    op[p] = "start" /\ pc[p] # "idle" /\ pc'[p] = "idle" /\ ret'[p].kind # "Ok"

\* No other call changed the manager: no stop() was called, and no other
\* start() spawned a subprocess.
OnlyStart(p) ==
    /\ stopCalls = 0
    /\ nspawned <= 1 /\ (nspawned = 1 => tr[p] = 1)

\* Caller p's start() is past the handshake, at the stores of lines 229-231.
Storing(p) ==
    op[p] = "start"
        /\ pc[p] \in {"start_store_transport", "start_store_rx", "start_set_running"}

\* C12: a start() call in which a step before the end of the handshake fails
\* returns an error and stores nothing: the failing step leaves status,
\* transport and notification receiver as they are, so that the status the
\* call itself wrote, Starting, stays (it is not reverted to Stopped and not
\* set to Error); and a call gets to store a transport only after both
\* handshake frames, initialize and initialized, were written.
C12_FailedStartLeavesStarting ==
    [][\A p \in Procs :
          /\ StartFails(p) =>
                /\ ret'[p].kind \in {"ErrLaunch", "ErrWrite", "ErrLsp", "ErrClosed"}
                /\ UNCHANGED <<status, transport, notification_rx>>
                /\ OnlyStart(p) => status' = "Starting"
          /\ Storing(p) =>
                /\ Len(stdin[tr[p]]) >= 2
                /\ stdin[tr[p]][1] = LspRequest(1, "start")
                /\ stdin[tr[p]][2] = LspNotification("start")
      ]_vars

\* C12 witness: the subprocess answered initialize with an error; start()
\* returned it, the status is Starting and nothing is stored.
C12_Witness ==
    \E p \in Procs :
        /\ op[p] = "start" /\ pc[p] = "idle" /\ ret[p] = Err("ErrLsp", ErrorOf(1))
        /\ status = "Starting" /\ transport = None /\ notification_rx = None
        /\ stopCalls = 0 /\ nspawned = 1

\* The last start() attempt of some caller failed, and no start() or stop()
\* call is in progress.
AfterFailedStart ==
    /\ \E q \in Procs :
          op[q] = "start" /\ pc[q] = "idle" /\ ret[q].kind \notin {"Ok", "none"}
    /\ Starting = {} /\ Stopping = {}

\* C13: after a start() attempt failed, a later start() call, with no other
\* operation needed in between, makes a new launch attempt: it does not
\* return at once but goes on to discovery, spawn and handshake.
C13_RetryLaunches ==
    [][\A p \in Procs :
          (Start(p) /\ AfterFailedStart /\ stopCalls = 0 /\ transport = None)
             => pc'[p] = "start_set_starting"
      ]_vars

\* The frames start() writes: the initialize request, which gets the first
\* id of its transport, and the initialized notification.
Initialize == LspRequest(1, "start")
Initialized == LspNotification("start")

\* Frame f was written to subprocess t before position k of its stdin.
WrittenBefore(t, f, k) == \E j \in 1..(k - 1) : stdin[t][j] = f

\* C14: for every subprocess, the initialized notification is written only
\* after the response to the initialize request was received, without an
\* error; and no feature request and no document notification is written to
\* the subprocess before the initialized notification.
C14_HandshakeOrder ==
    [][ /\ \A t \in Transports : \A k \in 1..Len(stdin[t]) :
              /\ stdin[t][k] = Initialized =>
                    WrittenBefore(t, Initialize, k) /\ fulfilled[t][1] >= 1
              /\ stdin[t][k].method \in {"hover", "did_open"} =>
                    WrittenBefore(t, Initialized, k)
        /\ \A p \in Procs :
              (op[p] = "start" /\ pc[p] = "req_await" /\ pc'[p] = "ntf_write")
                 => /\ chan[p].state = "value"
                    /\ chan[p].msg.id = 1
                    /\ chan[p].msg.error = None
      ]_vars

\* C14 witness: initialize, initialized and then a hover request were
\* written to a subprocess while a document notification is about to be.
C14_Witness ==
    /\ stdin[1] = <<Initialize, Initialized, LspRequest(2, "hover")>>
    /\ \E p \in Procs : op[p] = "did_open" /\ pc[p] = "ntf_write"

\* C15: a feature operation (the requests like hover, the document
\* notifications like did_open) called while no transport is held returns
\* "LSP not running" at once, writes no frame, allocates no request id,
\* registers nothing, and leaves status, transport and receiver unchanged.
C15_NotRunningWithoutTransport ==
    [][\A p \in Procs :
          ((Hover(p) \/ DidOpen(p)) /\ transport = None)
             => /\ ret'[p] = Err("ErrNotRunning", None)
                /\ pc'[p] = "idle"
                /\ UNCHANGED <<status, transport, notification_rx, project_root,
                               stdin, next_id, assigned, pending, nspawned>>
      ]_vars

\* C15 witness: while a start() call is in its handshake (status Starting,
\* subprocess spawned, transport not stored yet) a hover and a did_open
\* failed with "LSP not running"; only initialize was written.
C15_Witness ==
    \E p, q \in Procs :
        /\ op[p] = "hover" /\ NotRunning(p)
        /\ op[q] = "did_open" /\ NotRunning(q)
        /\ status = "Starting" /\ nspawned = 1 /\ Len(assigned[1]) = 1



\* No call is in progress, a stop() has returned and the status it wrote is
\* in place: the manager is "after stop".
AfterStop ==
    /\ status = "Stopped" /\ sinceStop # "no"
    /\ \A q \in Procs : pc[q] = "idle"

\* C16: the receiver of a session is handed to at most one caller of
\* take_notification_rx, however the takes interleave; every other take gets
\* none, and so does a take made before any start() and a take made after
\* stop().
C16_ReceiverTakenOnce ==
    [][\A p \in Procs :
          TakeNotificationRx(p) =>
             /\ \A t \in Transports : taken'[t] <= 1
             /\ notification_rx' = None
             /\ (nspawned = 0 \/ AfterStop) => ret'[p] = Ok(None)
      ]_vars

\* The part of C16 that holds in every interleaving: a receiver is handed out
\* at most once and is no longer stored afterwards; a take made before any
\* subprocess was launched, or after a stop() that no start() overlapped or
\* followed, gets none.
ReceiverTakenOnce ==
    /\ \A t \in Transports : taken[t] <= 1
    /\ \A t \in Transports :
          Cardinality({p \in Procs : op[p] = "take_rx" /\ ret[p] = Ok(t)}) <= 1
    /\ \A p \in Procs :
          (op[p] = "take_rx" /\ (nspawned = 0 \/ afterStop[p] = "quiet"))
             => ret[p] = Ok(None)
    /\ \A t \in Transports : (taken[t] = 1 /\ nspawned = t) => notification_rx # t

ReceiverTakenOnceReached ==
    \E p, q \in Procs :
       /\ p # q /\ op[p] = "take_rx" /\ op[q] = "take_rx"
       /\ ret[p] = Ok(1) /\ ret[q] = Ok(None)
       /\ afterStop[q] = "no" /\ status = "Running" /\ transport = 1


\* The position after chunk k of the wire is a frame boundary.
WholeUpTo(k) ==
    /\ wire[k].part = "body"
    /\ k > 1
    /\ wire[k - 1] = [wire[k] EXCEPT !.part = "header"]

\* C17: whatever request and notify calls run concurrently on a transport,
\* the stream written to the subprocess is a concatenation of whole frames:
\* every header is followed at once by the body of the same frame of the
\* same call, every body follows its header; only the frame being written
\* (or cut by a broken pipe) is incomplete, and it is the last one.
C17_WholeFrames ==
    \A k \in 1..Len(wire) :
       /\ wire[k].part = "body" => WholeUpTo(k)
       /\ wire[k].part = "header" =>
             IF k < Len(wire) THEN WholeUpTo(k + 1)
             ELSE \/ writer = wire[k].by /\ pc[writer] = "raw_body"
                  \/ ~WriteOk(1)

C17_Witness ==
    \E p, q \in Procs :
       /\ Len(wire) = 3 /\ WholeUpTo(2)
       /\ wire[1].by = p /\ wire[3].by = q /\ p # q
       /\ wire[1].frame = LspRequest(1, "request")
       /\ wire[3].frame = LspNotification("notify")
       /\ pc[p] = "req_await" /\ pc[q] = "raw_body" /\ writer = q


\* The reader of transport t routes a response frame that carries an error.
ErrorRouted(t) ==
    /\ ReaderRoute(t)
    /\ is_response(Head(stdout[t])) /\ Head(stdout[t]).error # None

\* The request call of caller p takes a response with an error off its channel.
ErrorReturned(p) ==
    /\ RequestAwait(p)
    /\ chan[p].state = "value" /\ chan[p].msg.error # None

\* The oneshot channel of caller q is left as it was.
ChanSame(q) ==
    /\ chan'[q].state = chan[q].state
    /\ chan[q].state = "value" => chan'[q].msg = chan[q].msg

\* C18: a response frame with an error reaches only the request call whose
\* id it carries, and that call returns the error. Routing it and returning
\* it leave the status and the held transport as they are, every other
\* table entry in place and every other call where it was; a call that
\* returned an error returned the error of the frame with its own id.
C18_ErrorOnlyToMatchingCall ==
    [][ /\ \A t \in Transports :
              ErrorRouted(t) =>
                 LET msg == Head(stdout[t])
                 IN /\ status' = status /\ transport' = transport
                    /\ pc' = pc /\ ret' = ret
                    /\ \A u \in Transports : \A i \in Ids :
                          (u # t \/ i # msg.id) => pending'[u][i] = pending[u][i]
                    /\ \A q \in Procs :
                          (tr[q] # t \/ rid[q] # msg.id) => ChanSame(q)
                    /\ \A q \in Procs :
                          ~ChanSame(q) => chan'[q].state = "value" /\ chan'[q].msg = msg
        /\ \A p \in Procs :
              ErrorReturned(p) =>
                 /\ chan[p].msg.id = rid[p]
                 /\ op[p] \in RequestOps =>
                       pc'[p] = "idle" /\ ret'[p] = Err("ErrLsp", ErrorOf(rid[p]))
                 /\ status' = status /\ transport' = transport
                 /\ pending' = pending
                 /\ \A q \in Procs \ {p} :
                       pc'[q] = pc[q] /\ ret'[q] = ret[q] /\ ChanSame(q)
        /\ \A p \in Procs :
              (ReturnedResponse(p) /\ ret[p].kind = "ErrLsp")
                 => ret[p].val = ErrorOf(rid[p])
      ]_vars

C18_Witness ==
    \E p, q \in Procs :
       /\ op[p] = "hover" /\ pc[p] = "idle" /\ ret[p] = Err("ErrLsp", ErrorOf(rid[p]))
       /\ op[q] = "hover" /\ pc[q] = "req_await" /\ chan[q].state = "open"
       /\ rid[q] < rid[p] /\ pending[1][rid[q]] = q
       /\ status = "Running" /\ transport = 1


\* The reader of transport t reads a frame with a method and no id.
NotificationRead(t) ==
    ReaderRoute(t) /\ is_notification(Head(stdout[t]))

\* C19: a frame with a method and no id fulfils and removes no pending
\* request, whatever is pending when it is read: the pending tables and the
\* channels of all calls are as before, no call returns, and the frame is
\* appended to the notification channel.
C19_NotificationOnlyForwarded ==
    [][\A t \in Transports :
          NotificationRead(t) =>
             /\ pending' = pending
             /\ fulfilled' = fulfilled /\ late' = late
             /\ \A q \in Procs : ChanSame(q) /\ pc'[q] = pc[q] /\ ret'[q] = ret[q]
             /\ notifq'[t] = Append(notifq[t], Head(stdout[t]))
             /\ \A u \in Transports \ {t} : notifq'[u] = notifq[u]
      ]_vars

C19_Witness ==
    \E p \in Procs :
       /\ pc[p] = "req_await" /\ chan[p].state = "open" /\ pending[1][rid[p]] = p
       /\ stdin[1] # <<>> /\ notifq[1] = <<LspMessage(None, 1, None, None)>>
       /\ stdout[1] = <<>> /\ emitted = 1


\* The frames of s that the reader forwards, in the order of s.
Forwardable(s) == SelectSeq(s, LAMBDA m : ~is_response(m))

\* C20: what the consumer received, followed by what waits in the channel
\* and by what the reader has yet to read, is exactly the sequence of
\* notifications and server requests the subprocess wrote, in the order it
\* wrote them: nothing is lost, duplicated or reordered, whatever responses
\* lie between them.
C20_NotificationsInOrder ==
    \A t \in Transports :
       /\ delivered[t] \o notifq[t] \o Forwardable(stdout[t]) = Forwardable(wrote[t])
       /\ reader[t] = "done" => delivered[t] \o notifq[t] = Forwardable(wrote[t])

C20_Witness ==
    \E p \in Procs :
       /\ wrote[1] = <<LspMessage(None, 2, None, None),
                       LspMessage(1, None, ResultOf(1), None),
                       LspMessage(1, 1, None, None)>>
       /\ delivered[1] = <<LspMessage(None, 2, None, None), LspMessage(1, 1, None, None)>>
       /\ ReturnedResponse(p) /\ ret[p] = Ok(ResultOf(1))


\* The reader of transport t reads a frame with both an id and a method.
ServerRequestRead(t) ==
    ReaderRoute(t) /\ is_request(Head(stdout[t]))

\* C21: a frame with both an id and a method is forwarded to the
\* notification channel and nothing else happens: the pending tables and the
\* channels of all calls are as before, also when its id is the id of a
\* pending request, and nothing is written to the subprocess, neither when
\* the reader routes it nor when the consumer receives it; the subprocess is
\* only ever written the frames of request calls.
C21_ServerRequestOnlyForwarded ==
    [][ /\ \A t \in Transports :
              ServerRequestRead(t) =>
                 /\ pending' = pending
                 /\ fulfilled' = fulfilled /\ late' = late
                 /\ \A q \in Procs : ChanSame(q) /\ pc'[q] = pc[q] /\ ret'[q] = ret[q]
                 /\ stdin' = stdin
                 /\ notifq'[t] = Append(notifq[t], Head(stdout[t]))
        /\ \A t \in Transports : RecvNotification(t) => stdin' = stdin /\ pending' = pending
        /\ \A t \in Transports : \A k \in 1..Len(stdin[t]) :
              \E j \in 1..Len(assigned[t]) :
                 stdin[t][k] = LspRequest(assigned[t][j], "request")
      ]_vars

C21_Witness ==
    \E p \in Procs :
       /\ pc[p] = "req_await" /\ rid[p] = 1 /\ chan[p].state = "open"
       /\ pending[1][1] = p /\ stdin[1] = <<LspRequest(1, "request")>>
       /\ delivered[1] = <<LspMessage(1, 1, None, None)>>
       /\ wrote[1] = <<LspMessage(1, 1, None, None)>>


\* The reader of transport t reads a frame whose body does not parse.
MalformedRead(t) ==
    ReaderRoute(t) /\ ~Parses(Head(stdout[t]))

\* C22: a frame whose body is not UTF-8 or not JSON is skipped: reading it
\* fulfils and removes no pending request, returns no call, pushes nothing
\* onto the notification channel and leaves the reader running with the
\* frames that followed it next in the pipe.
C22_MalformedSkipped ==
    [][\A t \in Transports :
          MalformedRead(t) =>
             /\ pending' = pending
             /\ fulfilled' = fulfilled /\ late' = late
             /\ \A q \in Procs : ChanSame(q) /\ pc'[q] = pc[q] /\ ret'[q] = ret[q]
             /\ notifq' = notifq
             /\ reader'[t] = "running"
             /\ stdout'[t] = Tail(stdout[t])
      ]_vars

C22_Witness ==
    \E p \in Procs :
       /\ wrote[1] = <<NotJson, LspMessage(1, None, ResultOf(1), None)>>
       /\ ReturnedResponse(p) /\ ret[p] = Ok(ResultOf(1))
       /\ reader[1] = "running" /\ notifq[1] = <<>>


\* C23: once the reader loop of a transport has ended, the consumer of its
\* notification channel, after draining what is queued, observes the end of
\* the channel.
C23_ChannelClosesWithReader ==
    \A t \in Transports :
       (taken[t] >= 1 /\ reader[t] = "done") ~> (consumer[t] = "ended")


\* A step of start() or stop() that writes the status (lines 99, 231, 252).
StatusWrite ==
    \E p \in Procs : StartSetStarting(p) \/ StartSetRunning(p) \/ StopSetStopped(p)

\* A step of start() or stop() that writes the transport field (lines 229, 250).
TransportWrite ==
    \E p \in Procs : StartStoreTransport(p) \/ StopClearTransport(p)

\* C24: only the steps of start() and stop() that write them change the
\* status and the held transport. Feature operations, status(),
\* take_notification_rx, the reading of any inbound frame and the exit of the
\* subprocess leave both as they are; status() reports the status as it is.
\* So after the subprocess of a running session exited, and while no start()
\* or stop() is in progress, the status stays Running and the transport held.
C24_StatusOnlyByLifecycle ==
    [][ /\ status' # status => StatusWrite
        /\ transport' # transport => TransportWrite
        /\ \A p \in Procs :
              (Hover(p) \/ DidOpen(p) \/ Status(p) \/ TakeNotificationRx(p))
                 => status' = status /\ transport' = transport
        /\ \A p \in Procs : Status(p) => ret'[p] = StatusIs(status) /\ pc'[p] = "idle"
        /\ \A t \in Transports :
              (ReaderRoute(t) \/ ReaderEof(t) \/ ServerEmit(t) \/ ServerExit(t))
                 => status' = status /\ transport' = transport
        /\ (status = "Running" /\ transport # None /\ Starting = {} /\ Stopping = {}
               /\ ~\E p \in Procs : Stop(p))
              => status' = "Running" /\ transport' = transport
      ]_vars

C24_Witness ==
    \E p \in Procs :
       /\ op[p] = "status" /\ pc[p] = "idle" /\ ret[p] = StatusIs("Running")
       /\ status = "Running" /\ transport = 1 /\ server[1] = "exited" /\ reader[1] = "done"
       /\ stopCalls = 0


\* The values of LspStatus that the manager assigns.
AssignedStatuses == {"Stopped", "Starting", "Running"}

\* C28: the status is always Stopped, Starting or Running, and status()
\* never reports anything else: no failure of any operation and no exit of
\* a subprocess makes it Error.
C28_NeverError ==
    /\ status \in AssignedStatuses
    /\ \A p \in Procs :
          (op[p] = "status" /\ pc[p] = "idle") => ret[p].kind \in AssignedStatuses

C28_Witness ==
    \E p, q \in Procs :
       /\ op[p] = "start" /\ pc[p] = "idle" /\ ret[p].kind = "ErrLaunch"
       /\ op[q] = "status" /\ ret[q] = StatusIs("Starting")
       /\ status = "Starting" /\ Starting = {}


\* The number of the three shapes that envelope msg has.
Shapes(msg) ==
    Cardinality({s \in {"response", "notification", "request"} :
                    \/ s = "response" /\ is_response(msg)
                    \/ s = "notification" /\ is_notification(msg)
                    \/ s = "request" /\ is_request(msg)})

\* C25: every envelope the reader parses has exactly one of the shapes
\* response, notification and server request.
C25_ExactlyOneShape ==
    [][\A t \in Transports :
          (ReaderRoute(t) /\ Parses(Head(stdout[t]))) => Shapes(Head(stdout[t])) = 1
      ]_vars

\* The part of C25 that holds: no envelope has two of the shapes, and an
\* envelope with none of them is forwarded to the notification channel.
AtMostOneShape ==
    [][\A t \in Transports :
          (ReaderRoute(t) /\ Parses(Head(stdout[t]))) =>
             /\ Shapes(Head(stdout[t])) <= 1
             /\ Shapes(Head(stdout[t])) = 0 =>
                   /\ notifq'[t] = Append(notifq[t], Head(stdout[t]))
                   /\ pending' = pending
      ]_vars


\* C26: a notify call allocates no id and adds no pending entry; its one
\* step after the call writes and flushes exactly one frame, which has no
\* id, and returns Ok, or writes nothing and returns the write error. The
\* step needs no inbound frame: it can be taken whenever the call is at it.
C26_NotifyFireAndForget ==
    [][\A p \in Procs :
          /\ CallNotify(p) =>
                /\ next_id' = next_id /\ assigned' = assigned
                /\ pending' = pending /\ stdin' = stdin
          /\ (op[p] = "notify" /\ pc[p] = "ntf_write") => ENABLED NotifyWrite(p)
          /\ (op[p] = "notify" /\ NotifyWrite(p)) =>
                /\ next_id' = next_id /\ assigned' = assigned
                /\ pending' = pending
                /\ \A q \in Procs : ChanSame(q)
                /\ stdout' = stdout /\ notifq' = notifq
                /\ pc'[p] = "idle"
                /\ IF WriteOk(tr[p])
                   THEN /\ Len(stdin'[tr[p]]) = Len(stdin[tr[p]]) + 1
                        /\ SubSeq(stdin'[tr[p]], 1, Len(stdin[tr[p]])) = stdin[tr[p]]
                        /\ stdin'[tr[p]][Len(stdin'[tr[p]])].id = None
                        /\ stdin'[tr[p]][Len(stdin'[tr[p]])].method = "notify"
                        /\ ret'[p] = Ok(None)
                   ELSE /\ stdin' = stdin
                        /\ ret'[p] = Err("ErrWrite", None)
      ]_vars

C26_Witness ==
    \E p, q \in Procs :
       /\ op[p] = "notify" /\ pc[p] = "idle" /\ ret[p] = Ok(None)
       /\ op[q] = "request" /\ pc[q] = "req_await" /\ pending[1][1] = q
       /\ stdin[1] = <<LspRequest(1, "request"), LspNotification("notify")>>
       /\ next_id[1] = 2 /\ emitted = 0 /\ stdout[1] = <<>>


\* The request call of caller p takes the response matched to it off its
\* channel and returns.
ResponseReturned(p) ==
    RequestAwait(p) /\ chan[p].state = "value"

\* C30: a request call that got its response returns an error built from the
\* error field when the frame has one, whether or not it has a result too;
\* otherwise it returns the result as it is, or null when the frame has no
\* result.
C30_ErrorBeforeResult ==
    [][\A p \in Procs :
          ResponseReturned(p) =>
             LET msg == chan[p].msg
             IN /\ pc'[p] = "idle"
                /\ msg.error # None => ret'[p] = Err("ErrLsp", msg.error)
                /\ (msg.error = None /\ msg.result # None) => ret'[p] = Ok(msg.result)
                /\ (msg.error = None /\ msg.result = None) => ret'[p] = Ok(Null)
      ]_vars

C30_Witness ==
    \E p, q \in Procs :
       /\ wrote[1] = <<LspMessage(1, None, ResultOf(1), ErrorOf(1)),
                       LspMessage(2, None, None, None)>>
       /\ rid[p] = 1 /\ pc[p] = "idle" /\ ret[p] = Err("ErrLsp", ErrorOf(1))
       /\ rid[q] = 2 /\ pc[q] = "idle" /\ ret[q] = Ok(Null)


\* start() of caller p spawns a subprocess and builds its transport in this
\* step.
Launches(p) == StartLaunch(p) /\ nspawned' = nspawned + 1

\* Transport u has not been used: counter at 1, nothing pending, nothing
\* written, read or queued, reader running, and nobody holds it.
Fresh(u) ==
    /\ next_id[u] = 1
    /\ \A i \in Ids : pending[u][i] = None
    /\ stdin[u] = <<>> /\ stdout[u] = <<>> /\ notifq[u] = <<>>
    /\ reader[u] = "running"
    /\ transport # u /\ notification_rx # u /\ taken[u] = 0
    /\ \A q \in Procs : tr[q] # u

\* C27: the transport a start() builds is fresh, with an empty pending
\* table, the counter at 1 (its initialize request gets id 1) and an empty
\* notification channel; stop() clears the transport and the receiver it
\* finds, and a stop() that no start() overlapped returns with none held.
\* What a subprocess writes stays in its own session: a frame is read by the
\* reader of the transport whose subprocess wrote it, and reading it touches
\* only that transport's pending table and notification channel and only
\* calls made on that transport, also when a request of another session is
\* pending under the same id.
C27_SessionsIsolated ==
    [][ /\ \A p \in Procs :
              Launches(p) => Fresh(tr'[p]) /\ rid'[p] = 1 /\ tr'[p] = nspawned'
        /\ \A p \in Procs : StopClearTransport(p) => transport' = None
        /\ \A p \in Procs : StopClearRx(p) => notification_rx' = None
        /\ \A p \in Procs :
              (StopReturns(p) /\ ~overlap[p]) => transport' = None /\ notification_rx' = None
        /\ \A t \in Transports :
              ServerEmit(t) => \A u \in Transports \ {t} : stdout'[u] = stdout[u]
        /\ \A t \in Transports :
              ReaderRoute(t) =>
                 /\ \A u \in Transports \ {t} :
                       /\ pending'[u] = pending[u]
                       /\ notifq'[u] = notifq[u]
                       /\ stdout'[u] = stdout[u]
                 /\ \A q \in Procs :
                       ~ChanSame(q) => tr[q] = t /\ chan'[q].msg = Head(stdout[t])
      ]_vars

C27_Witness ==
    \E p \in Procs :
       /\ op[p] = "start" /\ tr[p] = 2 /\ pc[p] = "req_await"
       /\ pending[2][1] = p /\ chan[p].state = "open"
       /\ stopCalls = 1 /\ Stopping = {} /\ transport = None
       /\ reader[1] = "running" /\ stdout[1] = <<LspMessage(1, None, ResultOf(1), None)>>
       /\ stdout[2] = <<>>


\* One pipe with send_raw at its write end and a reader loop at its read
\* end; the bodies to send are any one to MaxFrames strings.
FrameInit ==
    /\ ManagerNew
    /\ NoTransport
    /\ NoCalls
    /\ writer = None
    /\ wire = <<>>
    /\ delivered = [t \in Transports |-> <<>>]
    /\ wrote = [t \in Transports |-> <<>>]
    /\ taken = [t \in Transports |-> 0]
    /\ consumer = [t \in Transports |-> "receiving"]
    /\ nspawned = 0
    /\ tr = [p \in Procs |-> None]
    /\ jsons \in UNION {[1..n -> Strs] : n \in 1..MaxFrames}
    /\ nsent = 0
    /\ pipe = <<>>
    /\ pipeOpen = TRUE
    /\ content_length = Nothing
    /\ rphase = "headers"
    /\ bodies = <<>>
    /\ blocks = <<>>

FrameNext ==
    \/ SendRawFrame
    \/ PipeClose
    \/ ReaderReadLine
    \/ ReaderReadEof
    \/ ReaderReadExact

FrameSpec == FrameInit /\ [][FrameNext]_vars

\* The frames of bodies i..j, one after the other.
RECURSIVE FramesFrom(_, _)
FramesFrom(i, j) ==
    IF i > j THEN <<>> ELSE Frame(jsons[i]) \o FramesFrom(i + 1, j)

\* C29: the reader decodes the frames send_raw wrote to the bytes of the
\* bodies send_raw was given, in order and one body per frame, also for
\* bodies with characters of several bytes: each decoded body is the byte
\* string of the body sent in its place, at the top of the reader's loop the
\* unread bytes are exactly the frames not yet decoded (no byte of a frame
\* went to its neighbour), and a reader that returned has decoded every
\* frame written.
C29_FramingRoundTrip ==
    /\ Len(bodies) <= nsent
    /\ \A i \in 1..Len(bodies) : bodies[i] = as_bytes(jsons[i])
    /\ (rphase = "headers" /\ content_length = Nothing) =>
          pipe = FramesFrom(Len(bodies) + 1, nsent)
    /\ rphase = "body" =>
          /\ content_length = Some(len(jsons[Len(bodies) + 1]))
          /\ pipe = as_bytes(jsons[Len(bodies) + 1]) \o FramesFrom(Len(bodies) + 2, nsent)
    /\ (rphase = "returned" /\ jsons # <<>>) => Len(bodies) = nsent /\ pipe = <<>>

C29_Witness ==
    /\ rphase = "returned"
    /\ Len(jsons) = 2
    /\ len(jsons[1]) >= 10
    /\ len(jsons[1]) # Len(jsons[1])
    /\ \E k \in 1..Len(jsons[2]) : jsons[2][k] = <<10>>
    /\ \E k \in 1..Len(jsons[2]) : jsons[2][k] = <<226, 130, 172>>
    /\ bodies = <<as_bytes(jsons[1]), as_bytes(jsons[2])>>


\* Ids of a response that are no i64: a JSON number with a fraction (as_i64
\* gives None, line 206) and a JSON string (no Value::Number, line 205).
FractionId == -2
StringId == -3

\* Responses nobody waits for: with any integer id, asked for or not, and
\* with an id that is no integer.
StrayBodies ==
    {LspMessage(i, None, ResultOf(1), None) : i \in Ids \cup {FractionId, StringId}}

\* The subprocess writes a response, to a request it read or a stray one.
ServerWriteStray(t) ==
    /\ t <= nspawned
    /\ server[t] = "up"
    /\ Len(wrote[t]) < MaxPush
    /\ \E f \in AnswersTo(stdin[t]) \cup StrayBodies :
          /\ stdout' = [stdout EXCEPT ![t] = Append(@, f)]
          /\ wrote' = [wrote EXCEPT ![t] = Append(@, f)]
    /\ UNCHANGED <<mgrVars, nspawned, server, emitted, stdin, reader, next_id,
                   pending, notifq, callVars, histVars>>
    /\ UNCHANGED <<writer, wire, delivered, taken, consumer, frameVars>>

StrayNext ==
    \/ \E p \in Procs : CallRequest(p)
    \/ \E p \in Procs : RequestInsert(p)
    \/ \E p \in Procs : RequestWrite(p)
    \/ \E p \in Procs : RequestAwait(p)
    \/ \E t \in Transports : ReaderRoute(t)
    \/ \E t \in Transports : ReaderEof(t)
    \/ \E t \in Transports : ServerWriteStray(t)
    \/ \E t \in Transports : ServerExit(t)

StraySpec == TransportInit /\ [][StrayNext]_vars

\* The reader of transport t reads a response whose id is no key of an entry
\* of its pending table.
UnmatchedRead(t) ==
    /\ ReaderRoute(t)
    /\ is_response(Head(stdout[t]))
    /\ Head(stdout[t]).id \notin Ids \/ pending[t][Head(stdout[t]).id] = None

\* C31: a response whose id has no pending entry (never allocated, fulfilled
\* before, or no integer) is dropped: the pending table, the fulfilment
\* counts, every caller's channel and position and the notification channel
\* stay as they are, the frame is consumed and the reader keeps running.
C31_UnmatchedDiscarded ==
    [][\A t \in Transports :
          UnmatchedRead(t) =>
             /\ pending' = pending
             /\ fulfilled' = fulfilled
             /\ notifq' = notifq
             /\ \A q \in Procs : ChanSame(q) /\ pc'[q] = pc[q] /\ ret'[q] = ret[q]
             /\ stdout'[t] = Tail(stdout[t])
             /\ reader'[t] = "running"
      ]_vars

C31_Witness ==
    /\ wrote[1] = <<LspMessage(1, None, ResultOf(1), None),
                    LspMessage(1, None, ResultOf(1), None),
                    LspMessage(StringId, None, ResultOf(1), None)>>
    /\ stdout[1] = <<>>
    /\ reader[1] = "running"
    /\ fulfilled[1][1] = 1 /\ late[1][1] = 1
    /\ \E p \in Procs : pending[1][2] = p /\ chan[p].state = "open"
    /\ notifq[1] = <<>>


\* The steps of stop() between reading the transport and clearing it: the
\* shutdown request and the exit notification.
StopSends == {"req_insert", "req_write", "req_await", "ntf_write"}

\* stop() of caller p writes, or fails to write, its exit notification.
ExitWrite(p) == NotifyWrite(p) /\ op[p] = "stop"

\* stop() of caller p writes, or fails to write, its shutdown request.
ShutdownWrite(p) == RequestWrite(p) /\ op[p] = "stop"

\* C32: a stop() that found a transport writes the shutdown request before
\* the exit notification, and the exit notification only when the shutdown
\* request has resolved: its response was read and delivered, or its write
\* failed; where the exit frame is written the shutdown frame precedes it on
\* the pipe. A stop() that found no transport goes straight to clearing the
\* fields and writes no frame.
C32_ShutdownThenExit ==
    [][ /\ \A p \in Procs :
             Stop(p) => IF transport # None
                        THEN pc'[p] = "req_insert" /\ tr'[p] = transport
                        ELSE pc'[p] = "stop_clear_transport" /\ tr'[p] = None
        /\ \A p \in Procs :
             (op[p] = "stop" /\ pc[p] \in StopSends) => tr[p] # None
        /\ \A p \in Procs :
             ShutdownWrite(p) =>
                /\ fulfilled[tr[p]][rid[p]] = 0
                /\ stdin'[tr[p]] # stdin[tr[p]] =>
                      stdin'[tr[p]] = Append(stdin[tr[p]], LspRequest(rid[p], "stop"))
        /\ \A p \in Procs :
             ExitWrite(p) =>
                /\ fulfilled[tr[p]][rid[p]] >= 1 \/ ~WriteOk(tr[p])
                /\ chan[p].state = "none"
                /\ stdin'[tr[p]] # stdin[tr[p]] =>
                      /\ stdin'[tr[p]] = Append(stdin[tr[p]], LspNotification("stop"))
                      /\ \E j \in 1..Len(stdin[tr[p]]) :
                            stdin[tr[p]][j] = LspRequest(rid[p], "stop")
        /\ \A p \in Procs :
             (op[p] = "stop" /\ pc[p] # "idle" /\ tr[p] = None) =>
                /\ pc[p] \notin StopSends /\ pc'[p] \notin StopSends
                /\ pc'[p] # pc[p] => stdin' = stdin
      ]_vars

C32_Witness ==
    /\ stdin[1] = <<LspRequest(1, "start"), LspNotification("start"),
                    LspRequest(2, "stop"), LspNotification("stop")>>
    /\ fulfilled[1][2] = 1
    /\ \E p \in Procs : op[p] = "stop" /\ pc[p] = "stop_clear_transport" /\ tr[p] = 1


\* Caller p's request call is in progress with its sender registered under
\* id i of transport t: between the insert and the return of the call.
Registered(p, t, i) ==
    /\ tr[p] = t /\ rid[p] = i
    /\ pc[p] \in {"req_write", "req_await"}

\* C33: every entry of a pending table is the sender of a request call that
\* is still in progress, registered and not yet returned; the id of a call
\* that has returned, with its response or with a write error, is in no
\* table.
C33_PendingOnlyInFlight ==
    \A t \in Transports, i \in Ids :
       pending[t][i] # None =>
          \E p \in Procs : pending[t][i] = p /\ Registered(p, t, i)

\* Lemma: an entry is the sender of a call in progress or a sender whose
\* receiver is gone, and a call that returned with its response left no
\* entry: the reader removed it before sending.
PendingInFlightOrOrphan ==
    /\ \A t \in Transports, i \in Ids :
          pending[t][i] \notin {None, Orphan} =>
             \E p \in Procs : pending[t][i] = p /\ Registered(p, t, i)
    /\ \A t \in Transports, i \in Ids :
          fulfilled[t][i] >= 1 => pending[t][i] = None

PendingInFlightOrOrphanReached ==
    \E t \in Transports, i, j \in Ids :
       /\ pending[t][i] = Orphan
       /\ fulfilled[t][j] = 1
       /\ \E p \in Procs : pc[p] = "idle" /\ ret[p].kind = "ErrWrite"


\* The request with id i has been written to the stdin of transport t.
Written(t, i) == \E k \in 1..Len(stdin[t]) : stdin[t][k].id = i

\* C34: the sender of a request is in the pending table before its frame is
\* written: the caller that writes has its entry under its id, every request
\* on the pipe has an entry or was fulfilled, and when the reader reads the
\* first response to a written request the entry is there and is fulfilled,
\* so no response is dropped for having come before the registration.
C34_InsertBeforeWrite ==
    [][ /\ \A p \in Procs :
             RequestWrite(p) => pending[tr[p]][rid[p]] = p /\ chan[p].state = "open"
        /\ \A t \in Transports, i \in Ids :
             Written(t, i) => pending[t][i] # None \/ fulfilled[t][i] >= 1
        /\ \A t \in Transports, i \in Ids :
             (ReadsResponse(t, i) /\ Written(t, i) /\ fulfilled[t][i] = 0) =>
                /\ pending[t][i] # None
                /\ pending'[t][i] = None
                /\ fulfilled'[t][i] = 1
                /\ pending[t][i] \in Procs =>
                      chan'[pending[t][i]] = ValueChan(Head(stdout[t]))
      ]_vars

C34_Witness ==
    /\ stdin[1] = <<LspRequest(2, "request"), LspRequest(1, "request")>>
    /\ fulfilled[1][1] = 1 /\ fulfilled[1][2] = 1
    /\ \A i \in Ids : late[1][i] = 0
    /\ \E p \in Procs : pc[p] = "req_await" /\ chan[p].state = "value"


\* No start() and no stop() call is in progress.
Quiescent == Starting = {} /\ Stopping = {}

\* C35: in every quiescent state, whatever the interleaving of the start()
\* and stop() calls that led to it, the status is Running exactly when a
\* transport is held.
C35_RunningIffTransport ==
    Quiescent => (status = "Running" <=> transport # None)


\* start() of caller p returns Ok in this step: at once, having read Running
\* or Starting (lines 94-97), or at the end of its handshake (line 238).
StartReturnsOk(p) ==
    /\ \/ Start(p) /\ pc'[p] = "idle"
       \/ StartSetRunning(p)
    /\ ret'[p].kind = "Ok"

\* C36: when a start() call returns success and no stop() ran while it did
\* (here: no stop() was ever called), the status is Running and a transport
\* is held at its return, so that a feature operation issued next finds the
\* transport.
C36_StartedMeansRunning ==
    [][\A p \in Procs :
          (StartReturnsOk(p) /\ stopCalls = 0) =>
             status' = "Running" /\ transport' # None
      ]_vars

\* Lemma: a start() call that went through its handshake, with no stop()
\* ever called, returns with the status Running and a transport held.
HandshakenStartRuns ==
    [][\A p \in Procs :
          (StartSetRunning(p) /\ stopCalls = 0) =>
             status' = "Running" /\ transport' # None
      ]_vars

HandshakenStartRunsReached ==
    /\ stopCalls = 0 /\ status = "Running" /\ transport = 1
    /\ \E p \in Procs : op[p] = "start" /\ pc[p] = "idle" /\ ret[p].kind = "Ok"


\* The transports that exist: held by the manager, or by a caller that
\* created or cloned one and has not dropped it.
LiveTransports == {t \in Transports : transport = t \/ Holders(t) # {}}

\* Transport t completed its handshake: `initialized` was written to it, and
\* the start() call that made it has returned.
Handshaken(t) ==
    /\ \E k \in 1..Len(stdin[t]) : stdin[t][k] = Initialized
    /\ \A p \in Starting : tr[p] # t

\* A stop() has sent transport t shutdown or exit, is about to, or found its
\* subprocess gone.
ShutDown(t) ==
    \/ \E k \in 1..Len(stdin[t]) : stdin[t][k].method = "stop"
    \/ \E p \in Stopping : tr[p] = t
    \/ server[t] # "up"

\* C37: however start() and stop() calls interleave, at most one transport
\* exists at a time, and every transport that completed its handshake is the
\* one the manager holds or was shut down by a stop(): none is overwritten
\* or dropped while its subprocess runs on.
C37_NoTransportLeaked ==
    /\ Cardinality(LiveTransports) <= 1
    /\ \A t \in Transports : Handshaken(t) => transport = t \/ ShutDown(t)


\* The number of frames the subprocesses 1..n have written.
RECURSIVE TotalWrote(_)
TotalWrote(n) == IF n = 0 THEN 0 ELSE Len(wrote[n]) + TotalWrote(n - 1)

\* A subprocess writes a frame to its stdout, a response or a frame of its
\* own, at any time from its launch on; the frames are recorded in order.
ServerWriteEarly(t) ==
    /\ t <= nspawned
    /\ server[t] = "up"
    /\ TotalWrote(MaxTransports) < MaxPush
    /\ \E f \in AnswersTo(stdin[t]) \cup ServerPushes :
          /\ stdout' = [stdout EXCEPT ![t] = Append(@, f)]
          /\ wrote' = [wrote EXCEPT ![t] = Append(@, f)]
    /\ UNCHANGED <<mgrVars, nspawned, server, emitted, stdin, reader, next_id,
                   pending, notifq, callVars, histVars>>
    /\ UNCHANGED <<writer, wire, delivered, taken, consumer, frameVars>>

\* Sessions being started, with subprocesses that also write notifications
\* and requests of their own, at any time from their launch on, callers that
\* take the receiver and the consumer tasks.
HandshakeNext ==
    \/ \E p \in Procs : Start(p)
    \/ \E p \in Procs : StartSetStarting(p)
    \/ \E p \in Procs : StartSetRoot(p)
    \/ \E p \in Procs : StartLaunch(p)
    \/ \E p \in Procs : StartStoreTransport(p)
    \/ \E p \in Procs : StartStoreRx(p)
    \/ \E p \in Procs : StartSetRunning(p)
    \/ \E p \in Procs : TakeNotificationRx(p)
    \/ \E p \in Procs : RequestInsert(p)
    \/ \E p \in Procs : RequestWrite(p)
    \/ \E p \in Procs : RequestAwait(p)
    \/ \E p \in Procs : NotifyWrite(p)
    \/ \E t \in Transports : ReaderRoute(t)
    \/ \E t \in Transports : ReaderEof(t)
    \/ \E t \in Transports : ServerWriteEarly(t)
    \/ \E t \in Transports : ServerExit(t)
    \/ \E t \in Transports : ConsumerRecv(t)

HandshakeSpec == Init /\ [][HandshakeNext]_vars

\* C38: what the reader reads before start() stored the receiver is queued
\* like anything read later: the reader appends every notification to the
\* channel whether or not a receiver is stored or taken, storing and taking
\* the receiver leave the queue as it is, the consumer takes from its head,
\* and so what the consumer received, followed by what is queued and what is
\* still unread, is what the subprocess wrote since its launch, in order.
C38_HandshakeNotificationsKept ==
    [][ /\ \A t \in Transports :
             delivered[t] \o notifq[t] \o Forwardable(stdout[t]) = Forwardable(wrote[t])
        /\ \A t \in Transports :
             (ReaderRoute(t) /\ ~is_response(Head(stdout[t]))) =>
                notifq'[t] = Append(notifq[t], Head(stdout[t]))
        /\ \A p \in Procs :
             (StartStoreRx(p) \/ StartStoreTransport(p) \/ StartSetRunning(p)
                 \/ TakeNotificationRx(p)) => notifq' = notifq /\ delivered' = delivered
        /\ \A p \in Procs : StartStoreRx(p) => notification_rx' = tr[p]
        /\ \A t \in Transports :
             ConsumerRecv(t) =>
                /\ taken[t] >= 1
                /\ delivered'[t] = Append(delivered[t], Head(notifq[t]))
                /\ notifq'[t] = Tail(notifq[t])
      ]_vars

\* A notification written before the initialize response, hence read during
\* the handshake, and one written after it were received in that order by
\* the consumer that took the receiver once start() had returned.
C38_Witness ==
    /\ wrote[1] = <<LspMessage(None, 1, None, None),
                    LspMessage(1, None, ResultOf(1), None),
                    LspMessage(None, 2, None, None)>>
    /\ delivered[1] = <<LspMessage(None, 1, None, None), LspMessage(None, 2, None, None)>>
    /\ taken[1] = 1 /\ status = "Running" /\ transport = 1
    /\ \E p \in Procs : op[p] = "start" /\ pc[p] = "idle" /\ ret[p].kind = "Ok"


\* ---- header blocks as a peer may write them
MaxHeaderBodyChars == 1
MaxLengthless == 2

\* "Content-Type: a" and "Content-Length: x", each with its line end, and the
\* Content-Length line of a body.
ContentTypeLine ==
    <<67, 111, 110, 116, 101, 110, 116, 45, 84, 121, 112, 101, 58, 32, 97>> \o CRLF
BadLengthLine == ContentLengthPrefix \o <<120>> \o CRLF
LengthLine(json) == ContentLengthPrefix \o Display(len(json)) \o CRLF

\* A frame for a body with the header block of the given kind: only the
\* Content-Length line, or a Content-Type line before or after it.
FrameAs(kind, json) ==
    (IF kind = "type_first" THEN ContentTypeLine ELSE <<>>)
       \o LengthLine(json)
       \o (IF kind = "type_last" THEN ContentTypeLine ELSE <<>>)
       \o CRLF \o as_bytes(json)
FrameKinds == {"plain", "type_first", "type_last"}

\* A header block without a parsable Content-Length line, and no body: only
\* a Content-Type line, a Content-Length line whose value is no number, or
\* nothing but the blank line.
Lengthless(kind) ==
    (IF kind = "only_type" THEN ContentTypeLine
     ELSE IF kind = "bad_length" THEN BadLengthLine
     ELSE <<>>) \o CRLF
LengthlessKinds == {"only_type", "bad_length", "blank"}

\* The peer writes the next body as a frame, with any of the header blocks.
PeerWriteFrame ==
    /\ pipeOpen
    /\ nsent < Len(jsons)
    /\ \E kind \in FrameKinds :
          /\ pipe' = pipe \o FrameAs(kind, jsons[nsent + 1])
          /\ blocks' = Append(blocks, kind)
    /\ nsent' = nsent + 1
    /\ UNCHANGED <<jsons, pipeOpen, content_length, rphase, bodies>>
    /\ UNCHANGED <<mgrVars, subVars, callVars, histVars,
                   writer, wire, delivered, wrote, taken, consumer>>

\* The peer writes a header block without a length.
PeerWriteLengthless ==
    /\ pipeOpen
    /\ Len(SelectSeq(blocks, LAMBDA k : k \in LengthlessKinds)) < MaxLengthless
    /\ \E kind \in LengthlessKinds :
          /\ pipe' = pipe \o Lengthless(kind)
          /\ blocks' = Append(blocks, kind)
    /\ UNCHANGED <<jsons, nsent, pipeOpen, content_length, rphase, bodies>>
    /\ UNCHANGED <<mgrVars, subVars, callVars, histVars,
                   writer, wire, delivered, wrote, taken, consumer>>

HeaderInit ==
    /\ ManagerNew
    /\ NoTransport
    /\ NoCalls
    /\ writer = None
    /\ wire = <<>>
    /\ delivered = [t \in Transports |-> <<>>]
    /\ wrote = [t \in Transports |-> <<>>]
    /\ taken = [t \in Transports |-> 0]
    /\ consumer = [t \in Transports |-> "receiving"]
    /\ nspawned = 0
    /\ tr = [p \in Procs |-> None]
    /\ jsons \in UNION {[1..n -> {s \in Strs : Len(s) <= MaxHeaderBodyChars}] :
                           n \in 1..MaxFrames}
    /\ nsent = 0
    /\ pipe = <<>>
    /\ pipeOpen = TRUE
    /\ content_length = Nothing
    /\ rphase = "headers"
    /\ bodies = <<>>
    /\ blocks = <<>>

HeaderNext ==
    \/ PeerWriteFrame
    \/ PeerWriteLengthless
    \/ PipeClose
    \/ ReaderReadLine
    \/ ReaderReadEof
    \/ ReaderReadExact

HeaderSpec == HeaderInit /\ [][HeaderNext]_vars

\* The reader reads a line; it has one before it, through a line feed.
ReadsLine == ReaderReadLine /\ LineEnd(pipe) > 0
NextLine == SubSeq(pipe, 1, LineEnd(pipe))

\* C39: a header block without a parsable Content-Length line is skipped:
\* at its blank line the reader goes back to reading headers, having taken
\* nothing but the line, decoded nothing and not returned. A header line
\* that is no Content-Length line leaves the length as it is, so the frames
\* that have a Content-Length line are decoded to their bodies, in order,
\* whatever other header lines and lengthless blocks lie between.
C39_HeadersWithoutLengthSkipped ==
    [][ /\ (ReadsLine /\ trim(NextLine) = <<>> /\ content_length = Nothing) =>
              /\ rphase' = "headers"
              /\ content_length' = Nothing
              /\ bodies' = bodies
              /\ pipe' = SubSeq(pipe, LineEnd(pipe) + 1, Len(pipe))
        /\ (ReadsLine /\ trim(NextLine) # <<>>
               /\ strip_prefix(trim(NextLine), ContentLengthPrefix) = Nothing) =>
              /\ rphase' = "headers"
              /\ content_length' = content_length
              /\ bodies' = bodies
        /\ Len(bodies) <= nsent
        /\ \A i \in 1..Len(bodies) : bodies[i] = as_bytes(jsons[i])
        /\ rphase = "returned" => Len(bodies) = nsent /\ pipe = <<>>
      ]_vars

C39_Witness ==
    /\ rphase = "returned"
    /\ blocks = <<"only_type", "type_first", "bad_length", "type_last">>
    /\ jsons = << <<<<226, 130, 172>>>>, <<<<10>>>> >>
    /\ bodies = <<as_bytes(jsons[1]), as_bytes(jsons[2])>>

====
